---- MODULE Spec2Model ----
(***************************************************************************)
(* Model of the ui-token-governor MCP server: the call-tool dispatcher     *)
(* (src/src/index.ts), the zod input schemas (src/unnamed/part_002) and    *)
(* the five tool handlers.                                                 *)
(*                                                                         *)
(* Source strings that are scanned character by character (componentCode,  *)
(* autohtmlCode) are sequences of one-character strings.  Every other      *)
(* string (names, paths, enum tags) is a TLA+ string.  An output text is   *)
(* the sequence of its lines (the text split on "\n"); a line is the       *)
(* sequence of the pieces a template literal concatenates, so              *)
(*   `Errors: ${errorCount} | Warnings: ${warningCount}`                   *)
(* is <<"Errors: ", ToString(errorCount), " | Warnings: ", ...>>.          *)
(* Non-ASCII glyphs and the backquote are written by code point ("U+2705",  *)
(* "U+0060").                                                              *)
(***************************************************************************)
EXTENDS Integers, Sequences, FiniteSets, TLC

(***************************************************************************)
(* Bounds of the model.                                                    *)
(***************************************************************************)
\* number of lines of a generated componentCode
MaxLines == 2
\* longest run of hex digits after "#" in a generated line
MaxHexRun == 7
\* the longest markup that calculateDepth is followed through character by
\* character
MaxMarkupLen == 5

(***************************************************************************)
(* Characters and character classes of the regular expressions.            *)
(***************************************************************************)
LowerSeq == <<"a", "b", "c", "d", "e", "f", "g", "h", "i", "j", "k", "l", "m",
              "n", "o", "p", "q", "r", "s", "t", "u", "v", "w", "x", "y", "z">>
UpperSeq == <<"A", "B", "C", "D", "E", "F", "G", "H", "I", "J", "K", "L", "M",
              "N", "O", "P", "Q", "R", "S", "T", "U", "V", "W", "X", "Y", "Z">>
Range(s) == {s[i] : i \in 1..Len(s)}
LowerChars == Range(LowerSeq)
UpperChars == Range(UpperSeq)
DigitChars == {"0", "1", "2", "3", "4", "5", "6", "7", "8", "9"}
\* \w of a JavaScript regular expression
WordChars == LowerChars \cup UpperChars \cup DigitChars \cup {"_"}
\* [0-9a-fA-F]
HexChars == DigitChars \cup {"a", "b", "c", "d", "e", "f", "A", "B", "C", "D", "E", "F"}
\* \s of a JavaScript regular expression (the ASCII part)
SpaceChars == {" ", "\t", "\r", "\n", "\f"}

\* the i flag: compare letters without case
ToLower(c) ==
  IF c \in UpperChars
    THEN LowerSeq[CHOOSE i \in 1..Len(UpperSeq) : UpperSeq[i] = c]
    ELSE c
LowerCase(s) == [i \in 1..Len(s) |-> ToLower(s[i])]

\* is the character at position i of s a word character (FALSE outside s)
IsWordAt(s, i) == i >= 1 /\ i <= Len(s) /\ s[i] \in WordChars
\* \b between positions k and k+1 of s (k = 0: start, k = Len(s): end)
Boundary(s, k) == IsWordAt(s, k) # IsWordAt(s, k + 1)
\* literal lit occurs in s starting at position i
OccursAt(s, lit, i) ==
  /\ i >= 1
  /\ i + Len(lit) - 1 <= Len(s)
  /\ \A j \in 1..Len(lit) : s[i + j - 1] = lit[j]
Contains(s, lit) == \E i \in 1..Len(s) : OccursAt(s, lit, i)

\* String.prototype.split("\n")
RECURSIVE SplitLines(_)
SplitLines(s) ==
  IF \E i \in 1..Len(s) : s[i] = "\n"
    THEN LET i == CHOOSE k \in 1..Len(s) :
                    s[k] = "\n" /\ \A j \in 1..(k - 1) : s[j] # "\n"
         IN  <<SubSeq(s, 1, i - 1)>> \o SplitLines(SubSeq(s, i + 1, Len(s)))
    ELSE <<s>>

(***************************************************************************)
(* The forbidden patterns of validate_component_tokens, one operator per   *)
(* regular expression, in the order of the forbiddenPatterns array.        *)
(***************************************************************************)
StyleObjLit == <<"s", "t", "y", "l", "e", "=", "{", "{">>
StyleAttrLit == <<"s", "t", "y", "l", "e", "=", "\"">>
ClassNameLit == <<"c", "l", "a", "s", "s", "N", "a", "m", "e", "=">>
ReactTokenLit == <<"t", "o", "k", "e", "n", ".", "p", "a", "d", "d", "i", "n", "g",
                   ".", "r", "e", "a", "c", "t">>
UnitLits == {<<"p", "x">>, <<"r", "e", "m">>, <<"e", "m">>, <<"p", "t">>,
             <<"v", "h">>, <<"v", "w">>}
FontLits == {<<"a", "r", "i", "a", "l">>,
             <<"h", "e", "l", "v", "e", "t", "i", "c", "a">>,
             <<"t", "i", "m", "e", "s">>,
             <<"c", "o", "u", "r", "i", "e", "r">>,
             <<"g", "e", "o", "r", "g", "i", "a">>,
             <<"v", "e", "r", "d", "a", "n", "a">>}

\* /style=\{\{/
MatchInlineStyle(line) == Contains(line, StyleObjLit)
\* /style="/
MatchInlineStyleAttr(line) == Contains(line, StyleAttrLit)
\* a faulty quantifier: {6}, the long form of a hex colour only
HexRunLengthsSixOnly == {6}
\* the quantifier {3,6} of the hex-colour pattern
HexRunLengths == 3..6
\* /#[0-9a-fA-F]{3,6}\b/
MatchHardcodedColor(line) ==
  \E i \in 1..Len(line) :
    /\ line[i] = "#"
    /\ \E n \in HexRunLengths :
         /\ i + n <= Len(line)
         /\ \A j \in 1..n : line[i + j] \in HexChars
         /\ Boundary(line, i + n)
\* /\b(px|rem|em|pt|vh|vw)\b/
MatchHardcodedSpacing(line) ==
  \E i \in 1..Len(line) : \E u \in UnitLits :
    /\ Boundary(line, i - 1)
    /\ OccursAt(line, u, i)
    /\ Boundary(line, i + Len(u) - 1)
\* /\b(arial|helvetica|times|courier|georgia|verdana)\b/i
MatchHardcodedFont(line) ==
  LET lower == LowerCase(line) IN
  \E i \in 1..Len(line) : \E f \in FontLits :
    /\ Boundary(line, i - 1)
    /\ OccursAt(lower, f, i)
    /\ Boundary(line, i + Len(f) - 1)
\* /className=.*\s+/
MatchPotentialHardcoded(line) ==
  \E i \in 1..Len(line) :
    /\ OccursAt(line, ClassNameLit, i)
    /\ \E j \in (i + Len(ClassNameLit))..Len(line) : line[j] \in SpaceChars

PatternTest(type, line) ==
  CASE type = "inline-style" -> MatchInlineStyle(line)
    [] type = "inline-style-attr" -> MatchInlineStyleAttr(line)
    [] type = "hardcoded-color" -> MatchHardcodedColor(line)
    [] type = "hardcoded-spacing" -> MatchHardcodedSpacing(line)
    [] type = "hardcoded-font" -> MatchHardcodedFont(line)
    [] type = "potential-hardcoded" -> MatchPotentialHardcoded(line)

forbiddenPatterns ==
  << [type |-> "inline-style", severity |-> "error",
      message |-> "Inline styles detected. All styles must come from tokens."],
     [type |-> "inline-style-attr", severity |-> "error",
      message |-> "Inline style attribute detected. Use token classes or props."],
     [type |-> "hardcoded-color", severity |-> "error",
      message |-> "Hardcoded color detected. Use color tokens instead."],
     [type |-> "hardcoded-spacing", severity |-> "warning",
      message |-> "Hardcoded spacing/size detected. Use spacing tokens instead."],
     [type |-> "hardcoded-font", severity |-> "error",
      message |-> "Hardcoded font detected. Use typography tokens instead."],
     [type |-> "potential-hardcoded", severity |-> "warning",
      message |-> "Check that all class names map to token values."] >>

(***************************************************************************)
(* JavaScript values of the argument objects.                              *)
(***************************************************************************)
Undef == [t |-> "undefined"]
Str(s) == [t |-> "string", v |-> s]
NumV(n) == [t |-> "number", v |-> n]
Bool(b) == [t |-> "boolean", v |-> b]
\* `${value}` of a template literal, for the values the handlers interpolate
Interpolate(x) ==
  CASE x.t = "undefined" -> "undefined"
    [] x.t = "number" -> ToString(x.v)
    [] x.t = "boolean" -> IF x.v THEN "true" ELSE "false"
    [] x.t = "string" -> x.v

(***************************************************************************)
(* The argument object of a call: args is undefined or an object whose     *)
(* fields hold JavaScript values (an absent key reads as undefined).        *)
(***************************************************************************)
NoArgs == [t |-> "undefined"]
Obj(fields) == [t |-> "object", f |-> fields]

(***************************************************************************)
(* zod: the issues that safeParse reports, in schema key order.  An issue  *)
(* is [path, message]; path is the sequence of keys, message the pieces of *)
(* the message text.                                                       *)
(***************************************************************************)
Issue(path, message) == [path |-> path, message |-> message]
\* a value of the wrong type, or a required value that is absent
TypeIssue(path, expected, x) ==
  IF x.t = "undefined"
    THEN Issue(path, <<"Required">>)
    ELSE Issue(path, <<"Expected ", expected, ", received ", x.t>>)
\* z.string()
ZodString(path, x) ==
  IF x.t # "string" THEN <<TypeIssue(path, "string", x)>> ELSE <<>>
\* z.string().min(1, msg) on a name or a path
ZodStringMin1(path, x, msg) ==
  IF x.t # "string" THEN <<TypeIssue(path, "string", x)>>
  ELSE IF x.v = "" THEN <<Issue(path, <<msg>>)>>
  ELSE <<>>
\* z.string().min(1, msg) on a source text
ZodTextMin1(path, x, msg) ==
  IF x.t # "string" THEN <<TypeIssue(path, "string", x)>>
  ELSE IF Len(x.v) < 1 THEN <<Issue(path, <<msg>>)>>
  ELSE <<>>
\* z.boolean()
ZodBoolean(path, x) ==
  IF x.t # "boolean" THEN <<TypeIssue(path, "boolean", x)>> ELSE <<>>
\* z.enum(options)
ZodEnum(path, x, options, expected) ==
  IF x.t # "string" THEN <<TypeIssue(path, expected, x)>>
  ELSE IF x.v \notin options
    THEN <<Issue(path, <<"Invalid enum value. Expected ", expected,
                         ", received '", x.v, "'">>)>>
  ELSE <<>>
\* .optional() and .default(d): an absent value raises no issue
ZodOptional(x, issues) == IF x.t = "undefined" THEN <<>> ELSE issues
ZodDefault(x, d) == IF x.t = "undefined" THEN d ELSE x

TokenCategorySchema ==
  {"color", "spacing", "typography", "elevation", "radius", "breakpoint", "motion"}
TokenCategoryExpected ==
  "'color' | 'spacing' | 'typography' | 'elevation' | 'radius' | 'breakpoint' | 'motion'"
FrameworkSchema == {"react", "vue", "svelte", "angular", "webc"}
FrameworkExpected == "'react' | 'vue' | 'svelte' | 'angular' | 'webc'"

ParseFailure(issues) == [success |-> FALSE, issues |-> issues]
ParseSuccess(data) == [success |-> TRUE, data |-> data]
\* z.object({...}).safeParse(args) given the issues and the data of the fields
ZodObject(args, issues, data) ==
  IF args.t # "object" THEN ParseFailure(<<TypeIssue(<<>>, "object", args)>>)
  ELSE IF Len(issues) > 0 THEN ParseFailure(issues)
  ELSE ParseSuccess(data)

ValidateTokensInputSchema(args) ==
  IF args.t # "object" THEN ZodObject(args, <<>>, <<>>)
  ELSE ZodObject(args,
         ZodTextMin1(<<"componentCode">>, args.f.componentCode,
                     "Component code is required")
           \o ZodEnum(<<"framework">>, args.f.framework,
                      FrameworkSchema, FrameworkExpected),
         [componentCode |-> args.f.componentCode.v,
          framework |-> args.f.framework.v])

(***************************************************************************)
(* The error every handler throws on a schema failure:                     *)
(*   `Invalid arguments:\n` + issues.map(`- ${path.join(".")}: ${message}`) *)
(*                                   .join("\n")                           *)
(***************************************************************************)
\* path.join("."), as pieces
RECURSIVE PathJoin(_)
PathJoin(path) ==
  IF Len(path) = 0 THEN <<>>
  ELSE IF Len(path) = 1 THEN <<path[1]>>
  ELSE <<path[1], ".">> \o PathJoin(Tail(path))
IssueLine(e) == <<"- ">> \o PathJoin(e.path) \o <<": ">> \o e.message
\* a faulty error text: only the first issue is reported
InvalidArgumentsFirstIssue(issues) ==
  << <<"Invalid arguments:">>, IssueLine(issues[1]) >>
InvalidArguments(issues) ==
  << <<"Invalid arguments:">> >> \o [i \in 1..Len(issues) |-> IssueLine(issues[i])]

(***************************************************************************)
(* The outcome of a handler: it returns a text or throws an Error with a   *)
(* message; steps lists the processing it did (scans, file accesses,       *)
(* template renderings) in order.                                          *)
(***************************************************************************)
Return(text, steps) == [kind |-> "return", text |-> text, steps |-> steps]
Throw(message, steps) == [kind |-> "throw", text |-> message, steps |-> steps]

(***************************************************************************)
(* validate_component_tokens                                               *)
(***************************************************************************)
Violation(rule, index) ==
  [type |-> rule.type, line |-> NumV(index + 1),
   severity |-> rule.severity, message |-> rule.message]
\* forbiddenPatterns.forEach on one line (index is 0-based), from rule k on
RECURSIVE ScanRules(_, _, _)
ScanRules(line, index, k) ==
  IF k > Len(forbiddenPatterns) THEN <<>>
  ELSE (IF PatternTest(forbiddenPatterns[k].type, line)
          THEN <<Violation(forbiddenPatterns[k], index)>>
          ELSE <<>>)
       \o ScanRules(line, index, k + 1)
\* a faulty scan: rule by rule, each rule over all the lines from line i on
ScanLinesRuleMajor(lines, i) ==
  LET RuleFindings(k) ==
        SelectSeq([n \in 1..(Len(lines) - i + 1) |->
                     [at |-> n + i - 2,
                      hit |-> PatternTest(forbiddenPatterns[k].type, lines[n + i - 1])]],
                  LAMBDA x : x.hit)
      FindingsOfRule(k) ==
        [n \in 1..Len(RuleFindings(k)) |->
           Violation(forbiddenPatterns[k], RuleFindings(k)[n].at)]
  IN  FindingsOfRule(1) \o FindingsOfRule(2) \o FindingsOfRule(3)
        \o FindingsOfRule(4) \o FindingsOfRule(5) \o FindingsOfRule(6)
\* lines.forEach, from line i (1-based position in lines) on
RECURSIVE ScanLines(_, _)
ScanLines(lines, i) ==
  IF i > Len(lines) THEN <<>>
  ELSE ScanRules(lines[i], i - 1, 1) \o ScanLines(lines, i + 1)
\* the finding of the framework-specific check: it carries no line
FrameworkSpecificToken ==
  [type |-> "framework-specific-token", line |-> Undef, severity |-> "error",
   message |-> "Framework-specific token detected. Tokens must remain framework-agnostic. Use token.space.md instead of token.padding.react"]
\* a faulty framework check: the test for react is missing
FrameworkViolationsAnyFramework(componentCode, framework) ==
  IF Contains(componentCode, ReactTokenLit)
    THEN <<FrameworkSpecificToken>>
    ELSE <<>>
\* the framework-specific check: /token\.padding\.react/ on the whole text
FrameworkViolations(componentCode, framework) ==
  IF framework = "react" /\ Contains(componentCode, ReactTokenLit)
    THEN <<FrameworkSpecificToken>>
    ELSE <<>>
Violations(componentCode, framework) ==
  ScanLines(SplitLines(componentCode), 1)
    \o FrameworkViolations(componentCode, framework)

\* a faulty count: both counts filter on "error"
CountSeverityErrorTwice(violations, severity) ==
  Cardinality({i \in 1..Len(violations) : violations[i].severity = "error"})
CountSeverity(violations, severity) ==
  Cardinality({i \in 1..Len(violations) : violations[i].severity = severity})

PassBanner == <<"U+2705 Component passes token validation!">>
FailBanner == <<"U+274C Component violates token governance rules">>
ReviewChecklist ==
  << <<"Review Checklist:">>,
     <<"- [x] All visual values come from tokens">>,
     <<"- [x] No hardcoded values detected">>,
     <<"- [x] No inline styles found">>,
     <<"- [x] Framework adapter respected">> >>
ValidateRequiredActions ==
  << <<"## Required Actions:">>,
     <<>>,
     <<"1. Replace all hardcoded values with token references">>,
     <<"2. Remove inline styles">>,
     <<"3. Map all visual properties to tokens">>,
     <<"4. Ensure component is reusable across contexts">> >>
SeverityIcon(severity) == IF severity = "error" THEN "U+1F6AB" ELSE "U+26A0 U+FE0F"
ViolationBlock(v) ==
  << <<SeverityIcon(v.severity), " **Line ", Interpolate(v.line), "** [", v.type, "]">>,
     <<"   ", v.message>>,
     <<>> >>
RECURSIVE ViolationBlocks(_)
ViolationBlocks(violations) ==
  IF Len(violations) = 0 THEN <<>>
  ELSE ViolationBlock(Head(violations)) \o ViolationBlocks(Tail(violations))
\* a faulty pass test: taken before the framework-specific check, it sees
\* the findings of the line scan only
ReportPassesLineScanOnly(violations) ==
  \A i \in 1..Len(violations) : violations[i].line.t = "undefined"
\* a faulty pass test: only findings of severity error fail the component
ReportPassesWithoutErrors(violations) ==
  \A i \in 1..Len(violations) : violations[i].severity # "error"
\* does the report take the pass branch
ReportPasses(violations) == Len(violations) = 0
\* the report text: its lines, and the empty rest after the last "\n"
ValidationReport(violations, framework) ==
  << <<"## Token Compliance Validation Report">>,
     <<>>,
     <<"Framework: ", framework>>,
     <<"Errors: ", ToString(CountSeverity(violations, "error")),
       " | Warnings: ", ToString(CountSeverity(violations, "warning"))>>,
     <<>> >>
  \o (IF ReportPasses(violations)
        THEN <<PassBanner, <<>>>> \o ReviewChecklist
        ELSE <<FailBanner, <<>>, <<"## Violations:">>, <<>>>>
               \o ViolationBlocks(violations)
               \o ValidateRequiredActions)
  \o << <<>> >>

handleValidateTokens(args) ==
  LET validationResult == ValidateTokensInputSchema(args) IN
  IF ~validationResult.success
    THEN Throw(InvalidArguments(validationResult.issues), <<>>)
    ELSE LET validatedArgs == validationResult.data
             violations == Violations(validatedArgs.componentCode,
                                      validatedArgs.framework)
         IN  Return(ValidationReport(violations, validatedArgs.framework),
                    <<"scan">>)

(***************************************************************************)
(* JSON values (the results of JSON.parse).  Strings and keys are          *)
(* sequences of characters; an object is the sequence of its entries.      *)
(***************************************************************************)
Null == [t |-> "null"]
JObject(entries) == [t |-> "object", e |-> entries]
JArray(elements) == [t |-> "array", e |-> elements]
Entry(k, v) == [k |-> k, v |-> v]

\* n spaces
RECURSIVE Pad(_)
Pad(n) == IF n = 0 THEN "" ELSE " " \o Pad(n - 1)
PrefixFirst(lines, pieces) == [lines EXCEPT ![1] = pieces \o @]
AppendToLast(lines, piece) == [lines EXCEPT ![Len(lines)] = @ \o <<piece>>]
\* JSON.stringify(value, null, 2), as lines; the first line carries no
\* indentation of its own.  (No string of the model needs an escape.)
RECURSIVE StringifyLines(_, _)
RECURSIVE MemberLines(_, _, _, _)
MemberLines(e, keyed, ind, i) ==
  IF i > Len(e) THEN <<>>
  ELSE LET val == IF keyed THEN e[i].v ELSE e[i]
           pre == <<Pad(ind + 2)>>
                    \o (IF keyed THEN <<"\"">> \o e[i].k \o <<"\": ">> ELSE <<>>)
           ls == PrefixFirst(StringifyLines(val, ind + 2), pre)
       IN  (IF i < Len(e) THEN AppendToLast(ls, ",") ELSE ls)
             \o MemberLines(e, keyed, ind, i + 1)
StringifyLines(v, ind) ==
  CASE v.t = "null" -> << <<"null">> >>
    [] v.t = "string" -> << <<"\"">> \o v.v \o <<"\"">> >>
    [] v.t = "number" -> << <<ToString(v.v)>> >>
    [] v.t = "boolean" -> << <<IF v.v THEN "true" ELSE "false">> >>
    [] v.t = "array" ->
         IF Len(v.e) = 0 THEN << <<"[]">> >>
         ELSE << <<"[">> >> \o MemberLines(v.e, FALSE, ind, 1) \o << <<Pad(ind), "]">> >>
    [] v.t = "object" ->
         IF Len(v.e) = 0 THEN << <<"{}">> >>
         ELSE << <<"{">> >> \o MemberLines(v.e, TRUE, ind, 1) \o << <<Pad(ind), "}">> >>
JSONStringify(v) == StringifyLines(v, 0)

(***************************************************************************)
(* The filesystem: a fixed tree of paths, each absent, a directory or a    *)
(* file.  A file's content is given by what JSON.parse makes of it: a      *)
(* value, or a SyntaxError with a message.                                 *)
(***************************************************************************)
Absent == [kind |-> "absent"]
Dir == [kind |-> "dir"]
JsonFile(value) == [kind |-> "file", valid |-> TRUE, value |-> value]
MalformedFile(error) == [kind |-> "file", valid |-> FALSE, error |-> error]

\* the paths of the model, and for each directory its entries in listing order:
\* [name, path = path.join(dir, name)]
FsPaths ==
  {"tokens", "tokens/README.md", "tokens/color", "tokens/color/index.json",
   "figma.json"}
DirEntries(dir) ==
  CASE dir = "tokens" ->
         << [name |-> "README.md", path |-> "tokens/README.md"],
            [name |-> "color", path |-> "tokens/color"] >>
    [] dir = "tokens/color" ->
         << [name |-> "index.json", path |-> "tokens/color/index.json"] >>
    [] OTHER -> <<>>
\* entry.name.endsWith(".json")
EndsWithJson(name) == name \in {"index.json", "figma.json"}

\* fs.existsSync
existsSync(files, path) == path \in DOMAIN files /\ files[path].kind # "absent"
\* fs.readFileSync(path, "utf-8"): the content, or an error
readFileSync(files, path) ==
  IF ~existsSync(files, path)
    THEN [threw |-> TRUE,
          message |-> <<"ENOENT: no such file or directory, open '", path, "'">>]
  ELSE IF files[path].kind = "dir"
    THEN [threw |-> TRUE,
          message |-> <<"EISDIR: illegal operation on a directory, read">>]
  ELSE [threw |-> FALSE, content |-> files[path]]
\* JSON.parse
JSONParse(content) ==
  IF content.valid
    THEN [threw |-> FALSE, value |-> content.value]
    ELSE [threw |-> TRUE, message |-> <<content.error>>]

(***************************************************************************)
(* read_tokens                                                             *)
(***************************************************************************)
ReadTokensInputSchema(args) ==
  IF args.t # "object" THEN ZodObject(args, <<>>, <<>>)
  ELSE ZodObject(args,
         ZodOptional(args.f.tokenPath, ZodString(<<"tokenPath">>, args.f.tokenPath))
           \o ZodOptional(args.f.category,
                ZodEnum(<<"category">>, args.f.category,
                        TokenCategorySchema, TokenCategoryExpected)),
         [tokenPath |-> args.f.tokenPath, category |-> args.f.category])

\* scanDirectory(dir): the .json files below dir, or the error readdirSync throws
RECURSIVE scanDirectory(_, _)
RECURSIVE scanEntries(_, _, _)
scanEntries(files, entries, i) ==
  IF i > Len(entries) THEN [threw |-> FALSE, found |-> <<>>, steps |-> <<>>]
  ELSE IF ~existsSync(files, entries[i].path)
    THEN scanEntries(files, entries, i + 1)
  ELSE LET here ==
             IF files[entries[i].path].kind = "dir"
               THEN scanDirectory(files, entries[i].path)
             ELSE IF EndsWithJson(entries[i].name)
               THEN [threw |-> FALSE, found |-> <<entries[i].path>>, steps |-> <<>>]
             ELSE [threw |-> FALSE, found |-> <<>>, steps |-> <<>>]
           rest == scanEntries(files, entries, i + 1)
       IN  IF here.threw THEN here
           ELSE IF rest.threw
             THEN [rest EXCEPT !.steps = here.steps \o @]
           ELSE [threw |-> FALSE, found |-> here.found \o rest.found,
                 steps |-> here.steps \o rest.steps]
scanDirectory(files, dir) ==
  IF files[dir].kind # "dir"
    THEN [threw |-> TRUE, steps |-> <<"readdirSync">>,
          message |-> <<"ENOTDIR: not a directory, scandir '", dir, "'">>]
    ELSE LET r == scanEntries(files, DirEntries(dir), 1)
         IN  [r EXCEPT !.steps = <<"readdirSync">> \o @]

\* a faulty answer for a missing token file: thrown instead of returned
TokenFileNotFoundThrown(tokenPath) ==
  Throw(<< <<"Token file not found: ", tokenPath>> >>, <<"existsSync">>)
\* the answer for a missing token file
TokenFileNotFound(tokenPath) ==
  Return(<< <<"Token file not found: ", tokenPath>> >>, <<"existsSync">>)
\* a faulty catch block: the error is thrown on as it is
FailedToReadTokensUnwrapped(message) == <<message>>
\* the wrapper of the catch block: `Failed to read tokens: ${error.message}`
FailedToReadTokens(message) == << <<"Failed to read tokens: ">> \o message >>

handleReadTokens(args, files) ==
  LET validationResult == ReadTokensInputSchema(args) IN
  IF ~validationResult.success
    THEN Throw(InvalidArguments(validationResult.issues), <<>>)
    ELSE
      LET validatedArgs == validationResult.data
          \* !tokenPath: undefined or the empty string
          given == validatedArgs.tokenPath.t = "string" /\ validatedArgs.tokenPath.v # ""
          hasCategory == validatedArgs.category.t = "string"
          tokenPath ==
            IF given THEN validatedArgs.tokenPath.v
            ELSE "tokens/" \o validatedArgs.category.v \o "/index.json"
      IN
      IF ~given /\ ~hasCategory
        THEN \* list all token files
          IF ~existsSync(files, "tokens")
            THEN Return(<< <<"No tokens directory found. Please ensure /tokens/ exists with token definitions.">> >>,
                        <<"existsSync">>)
            ELSE LET scan == scanDirectory(files, "tokens") IN
                 IF scan.threw
                   THEN Throw(FailedToReadTokens(scan.message),
                              <<"existsSync">> \o scan.steps)
                   ELSE Return(<< <<"Available token files:">> >>
                                 \o [i \in 1..Len(scan.found) |-> <<"  - ", scan.found[i]>>],
                               <<"existsSync">> \o scan.steps)
        ELSE \* read a specific token file
          IF ~existsSync(files, tokenPath)
            THEN TokenFileNotFound(tokenPath)
            ELSE LET tokenContent == readFileSync(files, tokenPath) IN
                 IF tokenContent.threw
                   THEN Throw(FailedToReadTokens(tokenContent.message),
                              <<"existsSync", "readFileSync">>)
                   ELSE LET tokenData == JSONParse(tokenContent.content) IN
                        IF tokenData.threw
                          THEN Throw(FailedToReadTokens(tokenData.message),
                                     <<"existsSync", "readFileSync", "JSON.parse">>)
                          ELSE Return(JSONStringify(tokenData.value),
                                      <<"existsSync", "readFileSync", "JSON.parse">>)

(***************************************************************************)
(* JavaScript operations on parsed JSON that process_figma_export uses.    *)
(***************************************************************************)
IsNullish(v) == v.t \in {"null", "undefined"}
Truthy(v) ==
  CASE v.t \in {"null", "undefined"} -> FALSE
    [] v.t = "boolean" -> v.v
    [] v.t = "number" -> v.v # 0
    [] v.t = "string" -> Len(v.v) > 0
    [] OTHER -> TRUE
\* v[key] for a v that is not null or undefined, and a key that no array,
\* string, number or boolean has; of a repeated key JSON.parse keeps the last
Prop(v, key) ==
  IF v.t = "object" /\ \E i \in 1..Len(v.e) : v.e[i].k = key
    THEN v.e[CHOOSE i \in 1..Len(v.e) :
                 v.e[i].k = key /\ \A j \in (i + 1)..Len(v.e) : v.e[j].k # key].v
    ELSE Undef
\* a || b
OrElse(a, b) == IF Truthy(a) THEN a ELSE b
\* Object.entries(v)
ObjectEntries(v) ==
  CASE v.t = "object" -> v.e
    [] v.t = "array" -> [i \in 1..Len(v.e) |-> Entry(<<ToString(i - 1)>>, v.e[i])]
    [] v.t = "string" -> [i \in 1..Len(v.v) |-> Entry(<<ToString(i - 1)>>, Str(<<v.v[i]>>))]
    [] OTHER -> <<>>
\* `${v}`, as pieces
RECURSIVE ToPieces(_)
RECURSIVE JoinElements(_, _)
JoinElements(e, i) ==
  IF i > Len(e) THEN <<>>
  ELSE (IF IsNullish(e[i]) THEN <<>> ELSE ToPieces(e[i]))
         \o (IF i < Len(e) THEN <<",">> ELSE <<>>)
         \o JoinElements(e, i + 1)
ToPieces(v) ==
  CASE v.t = "undefined" -> <<"undefined">>
    [] v.t = "null" -> <<"null">>
    [] v.t = "boolean" -> <<IF v.v THEN "true" ELSE "false">>
    [] v.t = "number" -> <<ToString(v.v)>>
    [] v.t = "string" -> v.v
    [] v.t = "array" -> JoinElements(v.e, 1)
    [] v.t = "object" -> <<"[object Object]">>
CannotRead(v, key) ==
  <<"Cannot read properties of ", v.t, " (reading '", key, "')">>

KeyStyles == <<"s", "t", "y", "l", "e", "s">>
KeyColors == <<"c", "o", "l", "o", "r", "s">>
KeyGrids == <<"g", "r", "i", "d", "s">>
KeyText == <<"t", "e", "x", "t">>
KeyComponents == <<"c", "o", "m", "p", "o", "n", "e", "n", "t", "s">>
KeySection == <<"s", "e", "c", "t", "i", "o", "n">>
KeyValue == <<"v", "a", "l", "u", "e">>
KeyFontFamily == <<"f", "o", "n", "t", "F", "a", "m", "i", "l", "y">>
KeyFontSize == <<"f", "o", "n", "t", "S", "i", "z", "e">>
KeyName == <<"n", "a", "m", "e">>
KeyType == <<"t", "y", "p", "e">>
KeyDescription == <<"d", "e", "s", "c", "r", "i", "p", "t", "i", "o", "n">>
LitSpacing == <<"s", "p", "a", "c", "i", "n", "g">>
LitAutoHTML == <<"A", "u", "t", "o", "H", "T", "M", "L">>
LitSansSerif == <<"s", "a", "n", "s", "-", "s", "e", "r", "i", "f">>
LitComponent == <<"C", "O", "M", "P", "O", "N", "E", "N", "T">>

\* formatTokenName: runs of whitespace become "/", capitals become lower
\* case, "/" becomes "."
RECURSIVE ReplaceSpaceRuns(_)
ReplaceSpaceRuns(s) ==
  IF Len(s) = 0 THEN <<>>
  ELSE IF s[1] \in SpaceChars
    THEN LET n == CHOOSE k \in 1..Len(s) :
                    /\ \A j \in 1..k : s[j] \in SpaceChars
                    /\ (k = Len(s) \/ s[k + 1] \notin SpaceChars)
         IN  <<"/">> \o ReplaceSpaceRuns(SubSeq(s, n + 1, Len(s)))
    ELSE <<s[1]>> \o ReplaceSpaceRuns(Tail(s))
formatTokenName(name) ==
  LET slashed == ReplaceSpaceRuns(name)
      lowered == LowerCase(slashed)
  IN  [i \in 1..Len(lowered) |-> IF lowered[i] = "/" THEN "." ELSE lowered[i]]

Extracted(items) == [threw |-> FALSE, items |-> items]
ExtractFailed(message) == [threw |-> TRUE, message |-> message]
\* figmaData.styles?.<key>, or the TypeError of reading .styles of null
StylesOf(figmaData, key) ==
  IF IsNullish(figmaData)
    THEN [threw |-> TRUE, message |-> CannotRead(figmaData, "styles")]
    ELSE LET styles == Prop(figmaData, KeyStyles)
         IN  [threw |-> FALSE,
              value |-> IF IsNullish(styles) THEN Undef ELSE Prop(styles, key)]

extractColors(figmaData) ==
  LET colors == StylesOf(figmaData, KeyColors) IN
  IF colors.threw THEN ExtractFailed(colors.message)
  ELSE IF ~Truthy(colors.value) THEN Extracted(<<>>)
  ELSE LET es == ObjectEntries(colors.value)
       IN  Extracted([i \in 1..Len(es) |->
                        [name |-> formatTokenName(es[i].k), value |-> es[i].v]])

\* the forEach of extractSpacing from entry i on: value.section throws on null
RECURSIVE SpacingFrom(_, _)
SpacingFrom(es, i) ==
  IF i > Len(es) THEN Extracted(<<>>)
  ELSE IF IsNullish(es[i].v) THEN ExtractFailed(CannotRead(es[i].v, "section"))
  ELSE LET rest == SpacingFrom(es, i + 1)
           here == IF Prop(es[i].v, KeySection) = Str(LitSpacing)
                     THEN << [name |-> formatTokenName(es[i].k),
                              value |-> OrElse(Prop(es[i].v, KeyValue), NumV(0))] >>
                     ELSE <<>>
       IN  IF rest.threw THEN rest ELSE Extracted(here \o rest.items)
extractSpacing(figmaData) ==
  LET grids == StylesOf(figmaData, KeyGrids) IN
  IF grids.threw THEN ExtractFailed(grids.message)
  ELSE IF ~Truthy(grids.value) THEN Extracted(<<>>)
  ELSE SpacingFrom(ObjectEntries(grids.value), 1)

RECURSIVE TypographyFrom(_, _)
TypographyFrom(es, i) ==
  IF i > Len(es) THEN Extracted(<<>>)
  ELSE IF IsNullish(es[i].v) THEN ExtractFailed(CannotRead(es[i].v, "fontFamily"))
  ELSE LET rest == TypographyFrom(es, i + 1)
           here == << [name |-> formatTokenName(es[i].k),
                       fontFamily |-> OrElse(Prop(es[i].v, KeyFontFamily), Str(LitSansSerif)),
                       fontSize |-> OrElse(Prop(es[i].v, KeyFontSize), NumV(16))] >>
       IN  IF rest.threw THEN rest ELSE Extracted(here \o rest.items)
extractTypography(figmaData) ==
  LET text == StylesOf(figmaData, KeyText) IN
  IF text.threw THEN ExtractFailed(text.message)
  ELSE IF ~Truthy(text.value) THEN Extracted(<<>>)
  ELSE TypographyFrom(ObjectEntries(text.value), 1)

\* comp.description?.includes("AutoHTML") || false
HasAutoHTML(description) ==
  CASE IsNullish(description) -> [threw |-> FALSE, value |-> FALSE]
    [] description.t = "string" ->
         [threw |-> FALSE, value |-> Contains(description.v, LitAutoHTML)]
    [] description.t = "array" ->
         [threw |-> FALSE,
          value |-> \E i \in 1..Len(description.e) : description.e[i] = Str(LitAutoHTML)]
    [] OTHER ->
         [threw |-> TRUE, message |-> <<"comp.description?.includes is not a function">>]
RECURSIVE ComponentsFrom(_, _)
ComponentsFrom(comps, i) ==
  IF i > Len(comps) THEN Extracted(<<>>)
  ELSE IF IsNullish(comps[i]) THEN ExtractFailed(CannotRead(comps[i], "name"))
  ELSE LET auto == HasAutoHTML(Prop(comps[i], KeyDescription)) IN
       IF auto.threw THEN ExtractFailed(auto.message)
       ELSE LET rest == ComponentsFrom(comps, i + 1)
                here == << [name |-> Prop(comps[i], KeyName),
                            type |-> OrElse(Prop(comps[i], KeyType), Str(LitComponent)),
                            hasAutoHTML |-> auto.value] >>
            IN  IF rest.threw THEN rest ELSE Extracted(here \o rest.items)
extractComponents(figmaData) ==
  IF IsNullish(figmaData)
    THEN ExtractFailed(CannotRead(figmaData, "components"))
  ELSE LET components == Prop(figmaData, KeyComponents) IN
       IF ~Truthy(components) THEN Extracted(<<>>)
       ELSE IF components.t # "array"
         THEN ExtractFailed(<<"figmaData.components.forEach is not a function">>)
       ELSE ComponentsFrom(components.e, 1)

(***************************************************************************)
(* process_figma_export                                                    *)
(***************************************************************************)
ProcessFigmaExportInputSchema(args) ==
  IF args.t # "object" THEN ZodObject(args, <<>>, <<>>)
  ELSE ZodObject(args,
         ZodStringMin1(<<"figmaFilePath">>, args.f.figmaFilePath,
                       "Figma export file path is required")
           \o ZodOptional(args.f.extractTokens,
                ZodBoolean(<<"extractTokens">>, args.f.extractTokens))
           \o ZodOptional(args.f.generateComponents,
                ZodBoolean(<<"generateComponents">>, args.f.generateComponents)),
         [figmaFilePath |-> args.f.figmaFilePath.v,
          extractTokens |-> ZodDefault(args.f.extractTokens, Bool(TRUE)).v,
          generateComponents |-> ZodDefault(args.f.generateComponents, Bool(FALSE)).v])

\* a section of the report: nothing when the list is empty
ColorSection(colors) ==
  IF Len(colors) = 0 THEN <<>>
  ELSE << <<"## Extracted Color Tokens">>, <<>>,
          <<"Found ", ToString(Len(colors)), " color tokens:">>, <<>> >>
       \o [i \in 1..Len(colors) |->
             <<"- ">> \o colors[i].name \o <<": U+0060">> \o ToPieces(colors[i].value) \o <<"U+0060">>]
       \o << <<>>, <<"Token files can be generated in U+0060tokens/color/U+0060">>, <<>> >>
SpacingSection(spacing) ==
  IF Len(spacing) = 0 THEN <<>>
  ELSE << <<"## Extracted Spacing Tokens">>, <<>>,
          <<"Found ", ToString(Len(spacing)), " spacing tokens:">>, <<>> >>
       \o [i \in 1..Len(spacing) |->
             <<"- ">> \o spacing[i].name \o <<": ">> \o ToPieces(spacing[i].value) \o <<"px">>]
       \o << <<>>, <<"Token files can be generated in U+0060tokens/spacing/U+0060">>, <<>> >>
TypographySection(typography) ==
  IF Len(typography) = 0 THEN <<>>
  ELSE << <<"## Extracted Typography Tokens">>, <<>>,
          <<"Found ", ToString(Len(typography)), " typography tokens:">>, <<>> >>
       \o [i \in 1..Len(typography) |->
             <<"- ">> \o typography[i].name \o <<": ">>
               \o ToPieces(typography[i].fontFamily) \o <<", ">>
               \o ToPieces(typography[i].fontSize) \o <<"px">>]
       \o << <<>>, <<"Token files can be generated in U+0060tokens/typography/U+0060">>, <<>> >>
RECURSIVE ComponentLines(_)
ComponentLines(components) ==
  IF Len(components) = 0 THEN <<>>
  ELSE << <<"- **">> \o ToPieces(components[1].name) \o <<"**: ">>
             \o ToPieces(components[1].type),
          <<"  - AutoHTML available: ",
            IF components[1].hasAutoHTML THEN "U+2705" ELSE "U+274C">> >>
       \o ComponentLines(Tail(components))
ComponentSection(components) ==
  IF Len(components) = 0 THEN <<>>
  ELSE << <<"## Detected Components">>, <<>>,
          <<"Found ", ToString(Len(components)), " components:">>, <<>> >>
       \o ComponentLines(components)
       \o << <<>>, <<"Use U+0060generate_componentU+0060 to create token-governed components.">>, <<>> >>
FigmaFooter ==
  << <<"## Next Steps">>, <<>>,
     <<"1. Review extracted tokens for accuracy">>,
     <<"2. Map Figma tokens to framework-agnostic token names">>,
     <<"3. Use U+0060convert_autohtmlU+0060 to transform AutoHTML to token-governed code">>,
     <<"4. Use U+0060validate_component_tokensU+0060 to ensure compliance">>, <<>>,
     <<"## Token Governance Rules">>, <<>>,
     <<"- U+2B55 Use framework-agnostic names: U+0060color.primary.baseU+0060">>,
     <<"- U+274C Avoid framework-specific names: U+0060color.react.primaryU+0060">>,
     <<"- U+2705 All visual values must reference tokens">>,
     <<"- U+2705 No hardcoded values in final components">>,
     <<>> >>

\* processFigmaData: the report, or the first error an extraction throws
processFigmaData(figmaData, extractTokens, generateComponents) ==
  LET colors == IF extractTokens THEN extractColors(figmaData) ELSE Extracted(<<>>)
      spacing == IF extractTokens THEN extractSpacing(figmaData) ELSE Extracted(<<>>)
      typography == IF extractTokens THEN extractTypography(figmaData) ELSE Extracted(<<>>)
      components ==
        IF generateComponents THEN extractComponents(figmaData) ELSE Extracted(<<>>)
  IN  IF colors.threw THEN colors
      ELSE IF spacing.threw THEN spacing
      ELSE IF typography.threw THEN typography
      ELSE IF components.threw THEN components
      ELSE [threw |-> FALSE,
            text |-> << <<"# Figma Export Processing Results">>, <<>> >>
                       \o ColorSection(colors.items)
                       \o SpacingSection(spacing.items)
                       \o TypographySection(typography.items)
                       \o ComponentSection(components.items)
                       \o FigmaFooter]

\* the answer for a missing export file
FigmaFileNotFound(figmaFilePath) ==
  Return(<< <<"Figma export file not found: ", figmaFilePath>> >>, <<"existsSync">>)
FailedToProcessFigma(message) == << <<"Failed to process Figma export: ">> \o message >>

handleProcessFigmaExport(args, files) ==
  LET validationResult == ProcessFigmaExportInputSchema(args) IN
  IF ~validationResult.success
    THEN Throw(InvalidArguments(validationResult.issues), <<>>)
    ELSE
      LET validatedArgs == validationResult.data IN
      IF ~existsSync(files, validatedArgs.figmaFilePath)
        THEN FigmaFileNotFound(validatedArgs.figmaFilePath)
        ELSE LET figmaContent == readFileSync(files, validatedArgs.figmaFilePath) IN
             IF figmaContent.threw
               THEN Throw(FailedToProcessFigma(figmaContent.message),
                          <<"existsSync", "readFileSync">>)
               ELSE LET figmaData == JSONParse(figmaContent.content) IN
                    IF figmaData.threw
                      THEN Throw(FailedToProcessFigma(figmaData.message),
                                 <<"existsSync", "readFileSync", "JSON.parse">>)
                      ELSE LET result == processFigmaData(figmaData.value,
                                           validatedArgs.extractTokens,
                                           validatedArgs.generateComponents)
                           IN  IF result.threw
                                 THEN Throw(FailedToProcessFigma(result.message),
                                            <<"existsSync", "readFileSync", "JSON.parse",
                                              "processFigmaData">>)
                                 ELSE Return(result.text,
                                             <<"existsSync", "readFileSync", "JSON.parse",
                                               "processFigmaData">>)

(***************************************************************************)
(* Texts.  A text is the sequence of its lines (split on "\n"), so         *)
(* appending one text to another joins the last line of the first with the *)
(* first line of the second.                                               *)
(***************************************************************************)
Cat(a, b) == SubSeq(a, 1, Len(a) - 1) \o <<a[Len(a)] \o b[1]>> \o Tail(b)
RECURSIVE CatAll(_)
CatAll(texts) ==
  IF Len(texts) = 0 THEN << <<>> >>
  ELSE Cat(texts[1], CatAll(Tail(texts)))
\* items.join(sep), as pieces
RECURSIVE JoinPieces(_, _)
JoinPieces(items, sep) ==
  IF Len(items) = 0 THEN <<>>
  ELSE IF Len(items) = 1 THEN <<items[1]>>
  ELSE <<items[1], sep>> \o JoinPieces(Tail(items), sep)
Fence == "U+0060U+0060U+0060"

getCodeBlockLanguage(framework) ==
  CASE framework = "react" -> "tsx"
    [] framework = "vue" -> "vue"
    [] framework = "svelte" -> "svelte"
    [] framework = "angular" -> "ts"
    [] framework = "webc" -> "js"
    [] OTHER -> "ts"

(***************************************************************************)
(* generate_component                                                      *)
(***************************************************************************)
\* z.array(TokenCategorySchema): one issue per bad element, path [key, index]
RECURSIVE ZodCategoryElements(_, _, _)
ZodCategoryElements(path, e, i) ==
  IF i > Len(e) THEN <<>>
  ELSE ZodEnum(path \o <<ToString(i - 1)>>, e[i],
               TokenCategorySchema, TokenCategoryExpected)
         \o ZodCategoryElements(path, e, i + 1)
ZodCategoryArray(path, x) ==
  IF x.t # "array" THEN <<TypeIssue(path, "array", x)>>
  ELSE ZodCategoryElements(path, x.e, 1)
DefaultTokenCategories == JArray(<<Str("color"), Str("spacing"), Str("typography")>>)

GenerateComponentInputSchema(args) ==
  IF args.t # "object" THEN ZodObject(args, <<>>, <<>>)
  ELSE ZodObject(args,
         ZodStringMin1(<<"componentName">>, args.f.componentName,
                       "Component name is required")
           \o ZodStringMin1(<<"description">>, args.f.description,
                            "Description is required")
           \o ZodOptional(args.f.framework,
                ZodEnum(<<"framework">>, args.f.framework,
                        FrameworkSchema, FrameworkExpected))
           \o ZodOptional(args.f.tokenCategories,
                ZodCategoryArray(<<"tokenCategories">>, args.f.tokenCategories)),
         [componentName |-> args.f.componentName.v,
          description |-> args.f.description.v,
          framework |-> ZodDefault(args.f.framework, Str("react")).v,
          tokenCategories |->
            LET cats == ZodDefault(args.f.tokenCategories, DefaultTokenCategories).e
            IN  [i \in 1..Len(cats) |-> cats[i].v]])

propsMap(category) ==
  CASE category = "color" -> "variant?: 'primary' | 'secondary' | 'accent';"
    [] category = "spacing" -> "size?: 'sm' | 'md' | 'lg';"
    [] category = "typography" -> "weight?: 'normal' | 'medium' | 'bold';"
    [] category = "elevation" -> "elevation?: 'none' | 'sm' | 'md' | 'lg';"
    [] category = "radius" -> "radius?: 'sm' | 'md' | 'lg' | 'full';"
    [] category = "breakpoint" -> "breakpoint?: 'sm' | 'md' | 'lg' | 'xl';"
    [] category = "motion" -> "animation?: 'fadeIn' | 'slideIn' | 'scaleIn';"
\* props.join("\n  "), as a text: every line but the first starts with "  "
generateTokenProps(tokenCategories) ==
  IF Len(tokenCategories) = 0 THEN << <<>> >>
  ELSE [i \in 1..Len(tokenCategories) |->
          IF i = 1 THEN <<propsMap(tokenCategories[i])>>
          ELSE <<"  ", propsMap(tokenCategories[i])>>]

ComponentTemplateReact(name, props) ==
  << <<"import { tokens } from '@tokens/tokens';">>,
     <<>>,
     <<"export interface ", name, "Props {">> >>
  \o PrefixFirst(props, <<"  ">>)
  \o << <<"  children?: React.ReactNode;">>,
     <<"}">>,
     <<>>,
     <<"export function ", name, "(props: ", name, "Props) {">>,
     <<"  const {">>,
     <<"    variant = 'primary',">>,
     <<"    size = 'md',">>,
     <<"    children,">>,
     <<"    ...tokenProps">>,
     <<"  } = props;">>,
     <<>>,
     <<"  // Map props to tokens">>,
     <<"  const styles = {">>,
     <<"    backgroundColor: tokens.color[variant].base,">>,
     <<"    padding: tokens.spacing[size],">>,
     <<"    ...tokenProps,">>,
     <<"  };">>,
     <<>>,
     <<"  return (">>,
     <<"    <div style={styles}>">>,
     <<"      {children}">>,
     <<"    </div>">>,
     <<"  );">>,
     <<"}">> >>
ComponentTemplateVue(name, props) ==
  << <<"<script setup lang=\"ts\">">>,
     <<"import { tokens } from '@tokens/tokens';">>,
     <<>>,
     <<"interface Props {">> >>
  \o PrefixFirst(props, <<"  ">>)
  \o << <<"  variant?: 'primary' | 'secondary';">>,
     <<"  size?: 'sm' | 'md' | 'lg';">>,
     <<"}">>,
     <<>>,
     <<"const props = withDefaults(defineProps<Props>(), {">>,
     <<"  variant: 'primary',">>,
     <<"  size: 'md',">>,
     <<"});">>,
     <<>>,
     <<"// Map props to tokens">>,
     <<"const computedStyles = computed(() => ({">>,
     <<"  backgroundColor: tokens.color[props.variant].base,">>,
     <<"  padding: tokens.spacing[props.size],">>,
     <<"}));">>,
     <<"</script>">>,
     <<>>,
     <<"<template>">>,
     <<"  <div :style=\"computedStyles\">">>,
     <<"    <slot />">>,
     <<"  </div>">>,
     <<"</template>">> >>
ComponentTemplateSvelte(name, props) ==
  << <<"<script lang=\"ts\">">>,
     <<"import { tokens } from '@tokens/tokens';">>,
     <<>>,
     <<"export let variant: 'primary' | 'secondary' = 'primary';">>,
     <<"export let size: 'sm' | 'md' | 'lg' = 'md';">> >>
  \o [i \in 1..Len(props) |-> <<"export let ">> \o props[i] \o <<";">>]
  \o << <<>>,
     <<"// Map props to tokens">>,
     <<"$: styles = {">>,
     <<"  backgroundColor: tokens.color[variant].base,">>,
     <<"  padding: tokens.spacing[size],">>,
     <<"};">>,
     <<"</script>">>,
     <<>>,
     <<"<div {style}>">>,
     <<"  <slot />">>,
     <<"</div>">> >>
ComponentTemplateDefault(name, framework) ==
  << <<"// Component for ", framework>>,
     <<"// TODO: Implement ", name, " component with token mappings">>,
     <<>> >>
StoryTemplateReact(name) ==
  << <<"import type { Meta, StoryObj } from '@storybook/react';">>,
     <<"import { ", name, " } from './", name, "';">>,
     <<>>,
     <<"const meta: Meta<typeof ", name, "> = {">>,
     <<"  title: 'Components/", name, "',">>,
     <<"  component: ", name, ",">>,
     <<"  parameters: {">>,
     <<"    layout: 'centered',">>,
     <<"  },">>,
     <<"  tags: ['autodocs'],">>,
     <<"};">>,
     <<>>,
     <<"export default meta;">>,
     <<"type Story = StoryObj<typeof ", name, ">;">>,
     <<>>,
     <<"export const Primary: Story = {">>,
     <<"  args: {">>,
     <<"    variant: 'primary',">>,
     <<"    size: 'md',">>,
     <<"    children: '", name, "',">>,
     <<"  },">>,
     <<"};">>,
     <<>>,
     <<"export const Secondary: Story = {">>,
     <<"  args: {">>,
     <<"    variant: 'secondary',">>,
     <<"    size: 'md',">>,
     <<"    children: '", name, "',">>,
     <<"  },">>,
     <<"};">>,
     <<>>,
     <<"export const Small: Story = {">>,
     <<"  args: {">>,
     <<"    variant: 'primary',">>,
     <<"    size: 'sm',">>,
     <<"    children: '", name, "',">>,
     <<"  },">>,
     <<"};">>,
     <<>>,
     <<"export const Large: Story = {">>,
     <<"  args: {">>,
     <<"    variant: 'primary',">>,
     <<"    size: 'lg',">>,
     <<"    children: '", name, "',">>,
     <<"  },">>,
     <<"};">> >>
StoryTemplateVue(name) ==
  << <<"<script setup lang=\"ts\">">>,
     <<"import { ", name, " } from './", name, ".vue';">>,
     <<"</script>">>,
     <<>>,
     <<"<template>">>,
     <<"  <Story title=\"Components/", name, "\" :layout=\"{ width: '400px' }\">">>,
     <<"    <Variant title=\"Primary\">">>,
     <<"      <", name, " variant=\"primary\" size=\"md\">">>,
     <<"        ", name>>,
     <<"      </", name, ">">>,
     <<"    </Variant>">>,
     <<>>,
     <<"    <Variant title=\"Secondary\">">>,
     <<"      <", name, " variant=\"secondary\" size=\"md\">">>,
     <<"        ", name>>,
     <<"      </", name, ">">>,
     <<"    </Variant>">>,
     <<>>,
     <<"    <Variant title=\"Small\">">>,
     <<"      <", name, " variant=\"primary\" size=\"sm\">">>,
     <<"        ", name>>,
     <<"      </", name, ">">>,
     <<"    </Variant>">>,
     <<>>,
     <<"    <Variant title=\"Large\">">>,
     <<"      <", name, " variant=\"primary\" size=\"lg\">">>,
     <<"        ", name>>,
     <<"      </", name, ">">>,
     <<"    </Variant>">>,
     <<"  </Story>">>,
     <<"</template>">> >>
StoryTemplateSvelte(name) ==
  << <<"import type { Meta, StoryObj } from '@storybook/svelte';">>,
     <<"import ", name, " from './", name, ".svelte';">>,
     <<>>,
     <<"const meta: Meta<typeof ", name, "> = {">>,
     <<"  title: 'Components/", name, "',">>,
     <<"  component: ", name, ",">>,
     <<"  parameters: {">>,
     <<"    layout: 'centered',">>,
     <<"  },">>,
     <<"  tags: ['autodocs'],">>,
     <<"};">>,
     <<>>,
     <<"export default meta;">>,
     <<"type Story = StoryObj<typeof ", name, ">;">>,
     <<>>,
     <<"export const Primary: Story = {">>,
     <<"  args: {">>,
     <<"    variant: 'primary',">>,
     <<"    size: 'md',">>,
     <<"  },">>,
     <<"  render: (args) => ({">>,
     <<"    Component: ", name, ",">>,
     <<"    props: args,">>,
     <<"  }),">>,
     <<"};">> >>
StoryTemplateDefault(name, framework) ==
  << <<"// Story for ", framework>>,
     <<"// TODO: Implement stories for ", name>>,
     <<>> >>

generateComponentTemplate(name, framework, description, tokenCategories) ==
  LET props == generateTokenProps(tokenCategories) IN
  CASE framework = "react" -> ComponentTemplateReact(name, props)
    [] framework = "vue" -> ComponentTemplateVue(name, props)
    [] framework = "svelte" -> ComponentTemplateSvelte(name, props)
    [] OTHER -> ComponentTemplateDefault(name, framework)
generateStoryTemplate(name, framework) ==
  CASE framework = "react" -> StoryTemplateReact(name)
    [] framework = "vue" -> StoryTemplateVue(name)
    [] framework = "svelte" -> StoryTemplateSvelte(name)
    [] OTHER -> StoryTemplateDefault(name, framework)

mappings ==
  << [category |-> "Color", lower |-> "color",
      tokens |-> <<"color.primary.base", "color.secondary.base", "color.text.base">>,
      props |-> <<"variant">>],
     [category |-> "Spacing", lower |-> "spacing",
      tokens |-> <<"spacing.sm", "spacing.md", "spacing.lg">>,
      props |-> <<"size", "padding">>],
     [category |-> "Typography", lower |-> "typography",
      tokens |-> <<"typography.size.base", "typography.weight.medium">>,
      props |-> <<"weight", "textSize">>],
     [category |-> "Elevation", lower |-> "elevation",
      tokens |-> <<"elevation.sm", "elevation.md", "elevation.lg">>,
      props |-> <<"elevation">>],
     [category |-> "Radius", lower |-> "radius",
      tokens |-> <<"radius.sm", "radius.md", "radius.lg", "radius.full">>,
      props |-> <<"radius">>] >>
MappingSection(m) ==
  << <<"### ", m.category>>,
     <<"- Tokens: U+0060">> \o JoinPieces(m.tokens, "U+0060, U+0060") \o <<"U+0060">>,
     <<"- Props: U+0060">> \o JoinPieces(m.props, "U+0060, U+0060") \o <<"U+0060">>,
     <<>> >>
\* a faulty guide: the test on tokenCategories is missing
MappingSectionsOfAll(tokenCategories, i) ==
  [k \in 1..(4 * Len(mappings)) |->
     MappingSection(mappings[((k - 1) \div 4) + 1])[((k - 1) % 4) + 1]]
RECURSIVE MappingSections(_, _)
MappingSections(tokenCategories, i) ==
  IF i > Len(mappings) THEN <<>>
  ELSE (IF mappings[i].lower \in Range(tokenCategories)
          THEN MappingSection(mappings[i]) ELSE <<>>)
       \o MappingSections(tokenCategories, i + 1)
generateTokenMappingGuide(componentName, tokenCategories) ==
  << <<"Token mappings for ", componentName, ":">>, <<>> >>
  \o MappingSections(tokenCategories, 1)
  \o << <<"### Mapping Rules">>, <<>>,
        <<"- U+2B55 token.space.md (framework-agnostic)">>,
        <<"- U+274C token.padding.react (framework-specific)">>,
        <<"- All visual values MUST come from tokens">>,
        <<"- No hardcoded colors, spacing, or fonts">>,
        <<>> >>

handleGenerateComponent(args) ==
  LET validationResult == GenerateComponentInputSchema(args) IN
  IF ~validationResult.success
    THEN Throw(InvalidArguments(validationResult.issues), <<>>)
    ELSE
      LET validatedArgs == validationResult.data
          framework == validatedArgs.framework
          componentName == validatedArgs.componentName
          component == generateComponentTemplate(componentName, framework,
                         validatedArgs.description, validatedArgs.tokenCategories)
          story == generateStoryTemplate(componentName, framework)
      IN  Return(
            CatAll(<<
              << <<"# ", componentName, " Component">>, <<>>,
                 <<"Framework: ", framework>>,
                 <<"Token Categories: ">> \o JoinPieces(validatedArgs.tokenCategories, ", "),
                 <<>>,
                 <<"## Component">>, <<>>,
                 <<Fence, getCodeBlockLanguage(framework)>>, <<>> >>,
              component,
              << <<>>, <<Fence>>, <<>>,
                 <<"## Story">>, <<>>,
                 <<Fence, getCodeBlockLanguage(framework)>>, <<>> >>,
              story,
              << <<>>, <<Fence>>, <<>>,
                 <<"## Token Mapping">>, <<>>, <<>> >>,
              generateTokenMappingGuide(componentName, validatedArgs.tokenCategories) >>),
            <<"generateComponentTemplate", "generateStoryTemplate",
              "generateTokenMappingGuide">>)

(***************************************************************************)
(* convert_autohtml                                                        *)
(***************************************************************************)
ConvertAutoHTMLInputSchema(args) ==
  IF args.t # "object" THEN ZodObject(args, <<>>, <<>>)
  ELSE ZodObject(args,
         ZodTextMin1(<<"autohtmlCode">>, args.f.autohtmlCode, "AutoHTML code is required")
           \o ZodOptional(args.f.framework,
                ZodEnum(<<"framework">>, args.f.framework,
                        FrameworkSchema, FrameworkExpected))
           \o ZodOptional(args.f.applyTokens,
                ZodBoolean(<<"applyTokens">>, args.f.applyTokens))
           \o ZodOptional(args.f.removeInlineStyles,
                ZodBoolean(<<"removeInlineStyles">>, args.f.removeInlineStyles))
           \o ZodOptional(args.f.componentName,
                ZodString(<<"componentName">>, args.f.componentName)),
         [autohtmlCode |-> args.f.autohtmlCode.v,
          framework |-> ZodDefault(args.f.framework, Str("react")).v,
          applyTokens |-> ZodDefault(args.f.applyTokens, Bool(TRUE)).v,
          removeInlineStyles |-> ZodDefault(args.f.removeInlineStyles, Bool(TRUE)).v,
          componentName |-> args.f.componentName])

\* the patterns of analyzeAutoHTML, in array order
SizeUnitLits == {<<"p", "x">>, <<"r", "e", "m">>, <<"e", "m">>, <<"p", "t">>}
AutoFontLits == {<<"a", "r", "i", "a", "l">>,
                 <<"h", "e", "l", "v", "e", "t", "i", "c", "a">>,
                 <<"t", "i", "m", "e", "s">>,
                 <<"c", "o", "u", "r", "i", "e", "r">>}
\* \d+(u) for a unit u of units, with the digits starting at i: the positions
\* at which a match can end
DigitsUnitEnds(s, i, units) ==
  IF s[i] \notin DigitChars THEN {}
  ELSE LET digitEnds == {d \in i..Len(s) : \A j \in i..d : s[j] \in DigitChars}
       IN  {du[1] + Len(du[2]) :
              du \in {x \in digitEnds \X units : OccursAt(s, x[2], x[1] + 1)}}
\* /\b\d+(px|rem|em|pt)\b/
MatchHardcodedSize(line) ==
  \E i \in 1..Len(line) :
    /\ Boundary(line, i - 1)
    /\ \E k \in DigitsUnitEnds(line, i, SizeUnitLits) : Boundary(line, k)
\* /\b(arial|helvetica|times|courier)\b/i
MatchAutoFont(line) ==
  LET lower == LowerCase(line) IN
  \E i \in 1..Len(line) : \E f \in AutoFontLits :
    /\ Boundary(line, i - 1)
    /\ OccursAt(lower, f, i)
    /\ Boundary(line, i + Len(f) - 1)
AutoPatternTest(type, line) ==
  CASE type = "inline-style-obj" -> MatchInlineStyle(line)
    [] type = "inline-style-attr" -> MatchInlineStyleAttr(line)
    [] type = "hardcoded-color" -> MatchHardcodedColor(line)
    [] type = "hardcoded-size" -> MatchHardcodedSize(line)
    [] type = "hardcoded-font" -> MatchAutoFont(line)
patterns ==
  << [type |-> "inline-style-obj",
      message |-> "Inline style object detected. Must use tokens."],
     [type |-> "inline-style-attr",
      message |-> "Inline style attribute detected. Must use tokens."],
     [type |-> "hardcoded-color",
      message |-> "Hardcoded color value. Must use color token."],
     [type |-> "hardcoded-size",
      message |-> "Hardcoded spacing/size. Must use spacing token."],
     [type |-> "hardcoded-font",
      message |-> "Hardcoded font family. Must use typography token."] >>
RECURSIVE AutoScanRules(_, _, _)
AutoScanRules(line, index, k) ==
  IF k > Len(patterns) THEN <<>>
  ELSE (IF AutoPatternTest(patterns[k].type, line)
          THEN << [type |-> patterns[k].type, line |-> index + 1,
                   message |-> patterns[k].message] >>
          ELSE <<>>)
       \o AutoScanRules(line, index, k + 1)
RECURSIVE AutoScanLines(_, _)
AutoScanLines(lines, i) ==
  IF i > Len(lines) THEN <<>>
  ELSE AutoScanRules(lines[i], i - 1, 1) \o AutoScanLines(lines, i + 1)
analyzeAutoHTML(code) == AutoScanLines(SplitLines(code), 1)

\* calculateDepth: the loop over the characters from position i on
\* a faulty counter: ">" does not decrement, so every "<" adds a level
DepthFromNeverClosing(code, i, currentDepth, maxDepth) ==
  maxDepth + Cardinality({j \in i..Len(code) : code[j] = "<"})
RECURSIVE DepthFrom(_, _, _, _)
DepthFrom(code, i, currentDepth, maxDepth) ==
  IF i > Len(code) THEN maxDepth
  ELSE IF code[i] = "<"
    THEN DepthFrom(code, i + 1, currentDepth + 1,
                   IF currentDepth + 1 > maxDepth THEN currentDepth + 1 ELSE maxDepth)
  ELSE IF code[i] = ">"
    THEN DepthFrom(code, i + 1, currentDepth - 1, maxDepth)
  ELSE DepthFrom(code, i + 1, currentDepth, maxDepth)
calculateDepth(code) == DepthFrom(code, 1, 0, 0)

\* code.match(/<[a-z][a-z0-9]*/gi): every match starts at a "<" before a letter
ElementCount(code) ==
  Cardinality({i \in 1..Len(code) :
                 /\ code[i] = "<"
                 /\ i + 1 <= Len(code)
                 /\ code[i + 1] \in LowerChars \cup UpperChars})
ClassAttrLit == <<"c", "l", "a", "s", "s", "=", "\"">>
\* /class="([^"]+)"/i matches at i (lower is code in lower case): the position
\* of the closing quote, or 0
ClassMatchEnd(code, lower, i) ==
  IF /\ OccursAt(lower, ClassAttrLit, i)
     /\ i + Len(ClassAttrLit) <= Len(code)
     /\ code[i + Len(ClassAttrLit)] # "\""
     /\ \E j \in (i + Len(ClassAttrLit) + 1)..Len(code) : code[j] = "\""
    THEN CHOOSE j \in (i + Len(ClassAttrLit) + 1)..Len(code) :
           /\ code[j] = "\""
           /\ \A k \in (i + Len(ClassAttrLit) + 1)..(j - 1) : code[k] # "\""
    ELSE 0
\* code.match(/class="([^"]+)"/gi): the matched substrings, left to right
RECURSIVE ClassMatches(_, _, _)
ClassMatches(code, lower, from) ==
  IF \E i \in from..Len(code) : ClassMatchEnd(code, lower, i) > 0
    THEN LET i == CHOOSE k \in from..Len(code) :
                    /\ ClassMatchEnd(code, lower, k) > 0
                    /\ \A j \in from..(k - 1) : ClassMatchEnd(code, lower, j) = 0
             e == ClassMatchEnd(code, lower, i)
         IN  <<SubSeq(code, i, e)>> \o ClassMatches(code, lower, e + 1)
    ELSE <<>>
\* c.replace(/class="([^"]+)"/, "$1") of a matched substring c: this pattern
\* has no i flag
ClassValue(c) ==
  IF OccursAt(c, ClassAttrLit, 1)
    THEN SubSeq(c, Len(ClassAttrLit) + 1, Len(c) - 1)
    ELSE c
extractComponentStructure(code) ==
  LET classes == ClassMatches(code, LowerCase(code), 1) IN
  [elementCount |-> ElementCount(code),
   maxDepth |-> calculateDepth(code),
   classes |-> [i \in 1..Len(classes) |-> ClassValue(classes[i])]]

ConvertedReact(name) ==
  << <<"import { tokens } from '@tokens/tokens';">>,
     <<>>,
     <<"export interface ", name, "Props {">>,
     <<"  variant?: 'primary' | 'secondary';">>,
     <<"  size?: 'sm' | 'md' | 'lg';">>,
     <<"  children?: React.ReactNode;">>,
     <<"}">>,
     <<>>,
     <<"export function ", name, "(props: ", name, "Props) {">>,
     <<"  const {">>,
     <<"    variant = 'primary',">>,
     <<"    size = 'md',">>,
     <<"    children,">>,
     <<"  } = props;">>,
     <<>>,
     <<"  // Map props to tokens">>,
     <<"  const styles = {">>,
     <<"    backgroundColor: tokens.color[variant].base,">>,
     <<"    padding: tokens.spacing[size],">>,
     <<"    // TODO: Add additional token mappings based on AutoHTML structure">>,
     <<"  };">>,
     <<>>,
     <<"  return (">>,
     <<"    <div style={styles}>">>,
     <<"      {children || '", name, "'}">>,
     <<"    </div>">>,
     <<"  );">>,
     <<"}">> >>
ConvertedVue(name) ==
  << <<"<script setup lang=\"ts\">">>,
     <<"import { tokens } from '@tokens/tokens';">>,
     <<>>,
     <<"interface Props {">>,
     <<"  variant?: 'primary' | 'secondary';">>,
     <<"  size?: 'sm' | 'md' | 'lg';">>,
     <<"}">>,
     <<>>,
     <<"const props = withDefaults(defineProps<Props>(), {">>,
     <<"  variant: 'primary',">>,
     <<"  size: 'md',">>,
     <<"});">>,
     <<>>,
     <<"// Map props to tokens">>,
     <<"const styles = computed(() => ({">>,
     <<"  backgroundColor: tokens.color[props.variant].base,">>,
     <<"  padding: tokens.spacing[props.size],">>,
     <<"}));">>,
     <<"</script>">>,
     <<>>,
     <<"<template>">>,
     <<"  <div :style=\"styles\">">>,
     <<"    <slot>", name, "</slot>">>,
     <<"  </div>">>,
     <<"</template>">> >>
ConvertedSvelte(name) ==
  << <<"<script lang=\"ts\">">>,
     <<"import { tokens } from '@tokens/tokens';">>,
     <<>>,
     <<"export let variant: 'primary' | 'secondary' = 'primary';">>,
     <<"export let size: 'sm' | 'md' | 'lg' = 'md';">>,
     <<>>,
     <<"// Map props to tokens">>,
     <<"$: styles = {">>,
     <<"  backgroundColor: tokens.color[variant].base,">>,
     <<"  padding: tokens.spacing[size],">>,
     <<"};">>,
     <<"</script>">>,
     <<>>,
     <<"<div {style}>">>,
     <<"  <slot>", name, "</slot>">>,
     <<"</div>">> >>
ConvertedDefault(name, framework) ==
  << <<"// Token-governed component for ", framework>>,
     <<"// AutoHTML structure converted to use tokens">>,
     <<"// TODO: Implement ", name, " component">>,
     <<>> >>

\* a faulty converter: the markup, cleaned of its styles or not, is carried
\* into the component as a comment
convertToTokenGovernedWithMarkup(code, framework, applyTokens, removeInlineStyles, componentName) ==
  LET name == IF componentName.t = "string" /\ componentName.v # ""
                THEN componentName.v ELSE "Component"
      markup == IF removeInlineStyles THEN <<"// cleaned: ">> \o code
                ELSE <<"// ">> \o code
  IN  (CASE framework = "react" -> ConvertedReact(name)
         [] framework = "vue" -> ConvertedVue(name)
         [] framework = "svelte" -> ConvertedSvelte(name)
         [] OTHER -> ConvertedDefault(name, framework)) \o <<markup>>
\* convertToTokenGoverned: cleanedCode is computed and never used
convertToTokenGoverned(code, framework, applyTokens, removeInlineStyles, componentName) ==
  LET name == IF componentName.t = "string" /\ componentName.v # ""
                THEN componentName.v ELSE "Component"
  IN  CASE framework = "react" -> ConvertedReact(name)
        [] framework = "vue" -> ConvertedVue(name)
        [] framework = "svelte" -> ConvertedSvelte(name)
        [] OTHER -> ConvertedDefault(name, framework)

\* /#{1}[0-9a-fA-F]{3,6}\b/ on the whole text
RecommendColor(code) == MatchHardcodedColor(code)
\* /\d+(px|rem|em)\b/
RecommendSpacing(code) ==
  \E i \in 1..Len(code) :
    \E k \in DigitsUnitEnds(code, i, {<<"p", "x">>, <<"r", "e", "m">>, <<"e", "m">>}) :
      Boundary(code, k)
\* /\b(arial|helvetica|times)\b/i
RecommendTypography(code) ==
  LET lower == LowerCase(code) IN
  \E i \in 1..Len(code) :
    \E f \in {<<"a", "r", "i", "a", "l">>,
              <<"h", "e", "l", "v", "e", "t", "i", "c", "a">>,
              <<"t", "i", "m", "e", "s">>} :
      /\ Boundary(code, i - 1)
      /\ OccursAt(lower, f, i)
      /\ Boundary(code, i + Len(f) - 1)
generateTokenRecommendations(code) ==
  (IF RecommendColor(code)
     THEN << <<"### Color Tokens">>, <<>>,
             <<"Create color tokens to replace hardcoded values:">>,
             <<"U+0060U+0060U+0060json">>,
             <<"{">>,
             <<"  \"base\": \"#0066cc\",">>,
             <<"  \"light\": \"#3388dd\",">>,
             <<"  \"dark\": \"#004c99\"">>,
             <<"}">>,
             <<"U+0060U+0060U+0060">>, <<>> >>
     ELSE <<>>)
  \o (IF RecommendSpacing(code)
        THEN << <<"### Spacing Tokens">>, <<>>,
                <<"Create spacing tokens:">>,
                <<"U+0060U+0060U+0060json">>,
                <<"{">>,
                <<"  \"value\": \"1rem\",">>,
                <<"  \"px\": 16">>,
                <<"}">>,
                <<"U+0060U+0060U+0060">>, <<>> >>
        ELSE <<>>)
  \o (IF RecommendTypography(code)
        THEN << <<"### Typography Tokens">>, <<>>,
                <<"Create typography tokens:">>,
                <<"U+0060U+0060U+0060json">>,
                <<"{">>,
                <<"  \"fontFamily\": \"system-ui\",">>,
                <<"  \"fontSize\": \"16px\"">>,
                <<"}">>,
                <<"U+0060U+0060U+0060">>, <<>> >>
        ELSE <<>>)
  \o << <<>> >>

AutoViolationLines(violations) ==
  IF Len(violations) = 0 THEN <<>>
  ELSE << <<"## U+26A0U+FE0F AutoHTML Violations Detected">>, <<>>,
          <<"AutoHTML contains ", ToString(Len(violations)),
            " token governance violations:">>, <<>> >>
       \o [k \in 1..(2 * Len(violations)) |->
             LET v == violations[(k + 1) \div 2] IN
             IF k % 2 = 1
               THEN <<"- U+1F6AB **", v.type, "** (Line ", ToString(v.line), ")">>
               ELSE <<"  ", v.message>>]
       \o << <<>>, <<"### Auto-generated code is NOT authoritative.">>,
             <<"These violations MUST be fixed before production use.">>, <<>> >>
\* a faulty list: the converter emits the list of the validator
ConvertRequiredActionsOfValidator == ValidateRequiredActions
ConvertRequiredActions ==
  << <<"### Required Actions">>,
     <<>>,
     <<"1. Review all detected violations">>,
     <<"2. Map hardcoded values to tokens using U+0060read_tokensU+0060">>,
     <<"3. Verify component with U+0060validate_component_tokensU+0060">>,
     <<"4. Ensure no AutoHTML residue remains">> >>
Mark(b) == IF b THEN "U+2705" ELSE "U+274C"

processAutoHTML(autohtmlCode, framework, applyTokens, removeInlineStyles, componentName) ==
  LET violations == analyzeAutoHTML(autohtmlCode)
      structure == extractComponentStructure(autohtmlCode)
  IN  CatAll(<<
        << <<"# AutoHTML to Token-Governed Component">>, <<>> >>
          \o AutoViolationLines(violations)
          \o << <<"## Component Structure">>, <<>>,
                <<"Framework: ", framework>>,
                <<"Elements: ", ToString(structure.elementCount)>>,
                <<"Depth: ", ToString(structure.maxDepth)>>, <<>> >>
          \o (IF Len(structure.classes) > 0
                THEN << <<"### Classes Found">>, <<>> >>
                       \o [i \in 1..Len(structure.classes) |->
                             <<"- U+0060">> \o structure.classes[i] \o <<"U+0060">>]
                       \o << <<>> >>
                ELSE <<>>)
          \o << <<>> >>,
        IF applyTokens \/ removeInlineStyles
          THEN CatAll(<<
                 << <<"## Token-Governed Component Code">>, <<>>,
                    <<Fence, getCodeBlockLanguage(framework)>>, <<>> >>,
                 convertToTokenGoverned(autohtmlCode, framework, applyTokens,
                                        removeInlineStyles, componentName),
                 << <<>>, <<Fence>>, <<>>, <<>> >> >>)
          ELSE << <<>> >>,
        IF applyTokens
          THEN Cat(<< <<"## Token Mapping Recommendations">>, <<>>, <<>> >>,
                   generateTokenRecommendations(autohtmlCode))
          ELSE << <<>> >>,
        << <<"## Conversion Summary">>, <<>>,
           <<"- Inline styles removed: ", Mark(removeInlineStyles)>>,
           <<"- Tokens applied: ", Mark(applyTokens)>>,
           <<"- Violations found: ", ToString(Len(violations))>>,
           <<"- Ready for production: ", Mark(Len(violations) = 0)>>, <<>> >>
          \o (IF Len(violations) > 0 THEN ConvertRequiredActions ELSE <<>>)
          \o << <<>> >> >>)

handleConvertAutoHTML(args) ==
  LET validationResult == ConvertAutoHTMLInputSchema(args) IN
  IF ~validationResult.success
    THEN Throw(InvalidArguments(validationResult.issues), <<>>)
    ELSE LET validatedArgs == validationResult.data IN
         Return(processAutoHTML(validatedArgs.autohtmlCode, validatedArgs.framework,
                                validatedArgs.applyTokens,
                                validatedArgs.removeInlineStyles,
                                validatedArgs.componentName),
                <<"processAutoHTML">>)

(***************************************************************************)
(* The call-tool request handler of the server: dispatch on the tool name, *)
(* and turn whatever the handler throws into an `Error: <message>` text.   *)
(***************************************************************************)
TextResponse(text) == [content |-> << [type |-> "text", text |-> text] >>]
\* `Error: ${errorMessage}`: the prefix goes in front of the first line
ErrorText(message) == << <<"Error: ">> \o Head(message) >> \o Tail(message)
\* the switch on the tool name; the default case throws
Handle(name, args, files) ==
  CASE name = "read_tokens" -> handleReadTokens(args, files)
    [] name = "validate_component_tokens" -> handleValidateTokens(args)
    [] name = "generate_component" -> handleGenerateComponent(args)
    [] name = "process_figma_export" -> handleProcessFigmaExport(args, files)
    [] name = "convert_autohtml" -> handleConvertAutoHTML(args)
    [] OTHER -> Throw(<< <<"Unknown tool: ", name>> >>, <<>>)
\* a faulty catch: the error escapes and the caller gets no content
CatchRethrows(outcome) ==
  IF outcome.kind = "throw"
    THEN [content |-> <<>>]
    ELSE TextResponse(outcome.text)
\* the try/catch around the switch: what the caller gets for an outcome
Catch(outcome) ==
  IF outcome.kind = "throw"
    THEN TextResponse(ErrorText(outcome.text))
    ELSE TextResponse(outcome.text)
\* one call: the outcome of the handler and the response made of it
Dispatch(name, args, files) ==
  LET handled == Handle(name, args, files)
  IN  [outcome |-> handled, response |-> Catch(handled)]
CallTool(name, args, files) == Dispatch(name, args, files).response

(***************************************************************************)
(* Inputs of the calls.                                                    *)
(***************************************************************************)
LineClean ==
  <<"<", "B", "u", "t", "t", "o", "n", ">">>
LineDivStyled ==
  <<"<", "d", "i", "v", " ", "s", "t", "y", "l", "e", "=", "\"", "c", "o",
    "l", "o", "r", ":", "#", "f", "f", "f", "\"", ">">>
LinePadding16px ==
  <<"p", "a", "d", "d", "i", "n", "g", ":", " ", "1", "6", "p", "x">>
LineMarginSpacePx ==
  <<"m", "a", "r", "g", "i", "n", ":", " ", "4", " ", "p", "x">>
LineReactToken ==
  <<"p", "=", "{", "t", "o", "k", "e", "n", ".", "p", "a", "d", "d", "i",
    "n", "g", ".", "r", "e", "a", "c", "t", "}">>
LineReactTokenTwice ==
  <<"t", "o", "k", "e", "n", ".", "p", "a", "d", "d", "i", "n", "g", ".",
    "r", "e", "a", "c", "t", "+", "t", "o", "k", "e", "n", ".", "p", "a",
    "d", "d", "i", "n", "g", ".", "r", "e", "a", "c", "t">>
LineFont ==
  <<"f", "o", "n", "t", ":", " ", "A", "r", "i", "a", "l">>
LineClassName ==
  <<"c", "l", "a", "s", "s", "N", "a", "m", "e", "=", "\"", "a", " ", "b",
    "\"">>
LineStyleObj ==
  <<"<", "p", " ", "s", "t", "y", "l", "e", "=", "{", "{", "x", "}", "}",
    ">">>
LineGap2rem ==
  <<"g", "a", "p", ":", "2", "r", "e", "m">>
BaseLines ==
  {<<>>, LineClean, LineDivStyled, LinePadding16px, LineMarginSpacePx,
   LineReactToken, LineReactTokenTwice, LineFont, LineClassName, LineStyleObj,
   LineGap2rem}

\* two lines in which the rules match more than once: sizes and units in
\* the first, colors, a size and a unit in the second
MarkupRepeats ==
  <<"4", "p", "x", " ", "8", "p", "x", " ", "2", " ", "e", "m", " ", "1", " ",
    "v", "w", "\n", "#", "f", "f", "f", " ", "#", "0", "0", "0", " ", "6",
    "p", "x", " ", "1", " ", "p", "t">>

\* "c:#" followed by n hex digits and a tail
HexDigitCycle == <<"f", "1", "A", "0", "c", "9", "E", "b">>
HexRun(n) == [i \in 1..n |-> HexDigitCycle[((i - 1) % Len(HexDigitCycle)) + 1]]
HexTails == {<<>>, <<"g">>, <<";">>, <<"_">>}
HexLine(n, tail) == <<"c", ":", "#">> \o HexRun(n) \o tail
HexLines == {HexLine(n, tail) : n \in 0..MaxHexRun, tail \in HexTails}

\* lines.join("\n")
RECURSIVE JoinLines(_)
JoinLines(lines) ==
  IF Len(lines) = 0 THEN <<>>
  ELSE IF Len(lines) = 1 THEN lines[1]
  ELSE lines[1] \o <<"\n">> \o JoinLines(Tail(lines))
LineSeqs(pool, n) == UNION {[1..k -> pool] : k \in 1..n}
\* the lines that texts of several lines are made of
MultiLines == {<<>>, LineClean, LineMarginSpacePx, LineReactToken, LineDivStyled}
ComponentCodes ==
  BaseLines \cup HexLines \cup {JoinLines(ls) : ls \in LineSeqs(MultiLines, MaxLines)}
    \cup {MarkupRepeats}

ComponentCodeValues == {Str(c) : c \in ComponentCodes} \cup {Undef, NumV(7)}
FrameworkValues ==
  {Str(f) : f \in FrameworkSchema} \cup {Str("jquery"), Undef, NumV(7)}
ValidateTokensArgs ==
  {NoArgs} \cup {Obj([componentCode |-> c, framework |-> f]) :
                   c \in ComponentCodeValues, f \in FrameworkValues}
TokenPathValues ==
  {Undef, Str(""), Str("tokens/color/index.json"), Str("tokens"),
   Str("missing.json"), NumV(7)}
CategoryValues == {Undef, Str("color"), Str("spacing"), Str("font"), NumV(7)}
ReadTokensArgs ==
  {NoArgs} \cup {Obj([tokenPath |-> p, category |-> c]) :
                   p \in TokenPathValues, c \in CategoryValues}

FigmaPathValues ==
  {Undef, Str(""), Str("figma.json"), Str("nowhere.json"), Str("tokens"), NumV(7)}
FlagValues == {Undef, Bool(TRUE), Bool(FALSE), Str("yes")}
ProcessFigmaExportArgs ==
  {NoArgs} \cup {Obj([figmaFilePath |-> p, extractTokens |-> e,
                      generateComponents |-> g, outputDir |-> o]) :
                   p \in FigmaPathValues, e \in FlagValues, g \in FlagValues,
                   o \in {Undef, Str("./out"), NumV(7)}}

NameValues == {Undef, Str(""), Str("Button")}
DescriptionValues == {Undef, Str(""), Str("x")}
TokenCategoriesValues ==
  {Undef, Str("color"), JArray(<<>>), JArray(<<Str("color")>>),
   JArray(<<Str("spacing"), Str("color"), Str("motion")>>),
   JArray(<<Str("color"), Str("font"), NumV(7)>>)}
GenerateComponentArgs ==
  {NoArgs} \cup {Obj([componentName |-> n, description |-> d, framework |-> f,
                      tokenCategories |-> c]) :
                   n \in NameValues, d \in DescriptionValues,
                   f \in FrameworkValues, c \in TokenCategoriesValues}

MarkupNested ==
  <<"<", "a", ">", "<", "b", ">", "<", "/", "b", ">", "<", "/", "a", ">">>
MarkupClasses ==
  <<"<", "d", "i", "v", " ", "c", "l", "a", "s", "s", "=", "\"", "a", " ",
    "b", "\"", " ", "C", "L", "A", "S", "S", "=", "\"", "c", "\"", " ", "c",
    "l", "a", "s", "s", "=", "\"", "a", "\"", ">">>
MarkupStyled ==
  <<"<", "p", " ", "s", "t", "y", "l", "e", "=", "\"", "c", "o", "l", "o",
    "r", ":", "#", "f", "f", "f", "\"", ">", "1", "6", "p", "x", " ", "A",
    "r", "i", "a", "l", "<", "/", "p", ">", "\n", "<", "i", " ", "s", "t",
    "y", "l", "e", "=", "{", "{", "x", "}", "}", ">", "2", "r", "e", "m",
    "<", "/", "i", ">">>
MarkupPlain ==
  <<"p", "l", "a", "i", "n", " ", ">", " ", "t", "e", "x", "t">>
\* every markup of "<", ">" and another character, up to MaxMarkupLen long
MarkupChars == {"<", ">", "a"}
MarkupStrings == UNION {[1..n -> MarkupChars] : n \in 0..MaxMarkupLen}
AutoHTMLCodes ==
  {MarkupNested, MarkupClasses, MarkupStyled, MarkupPlain, MarkupRepeats}
AutoHTMLCodeValues == {Str(c) : c \in AutoHTMLCodes} \cup {Undef, Str(<<>>)}
\* applyTokens, removeInlineStyles and componentName, as they are sent together
ConvertOptionValues ==
  {<<Undef, Undef, Undef>>,
   <<Bool(TRUE), Bool(FALSE), Str("Card")>>,
   <<Bool(FALSE), Bool(TRUE), Undef>>,
   <<Bool(FALSE), Bool(FALSE), Str("Card")>>,
   <<Bool(TRUE), Bool(TRUE), Str("Card")>>,
   <<Undef, Str("yes"), Undef>>,
   <<Bool(FALSE), Undef, NumV(7)>>,
   <<Bool(TRUE), Str("yes"), NumV(7)>>}
ConvertAutoHTMLArgs ==
  {NoArgs} \cup {Obj([autohtmlCode |-> c, framework |-> f, applyTokens |-> o[1],
                      removeInlineStyles |-> o[2], componentName |-> o[3]]) :
                   c \in AutoHTMLCodeValues,
                   f \in {Undef, Str("react"), Str("vue"), Str("svelte"),
                           Str("webc"), Str("jquery")},
                   o \in ConvertOptionValues}

UnknownToolNames == {"delete_tokens", "readTokens", ""}
AnyArgs == {NoArgs, Obj([tokenPath |-> Str("tokens/color/index.json")])}

\* the contents of the files of the model
KeyBase ==
  <<"b", "a", "s", "e">>
KeyPrimaryBlue ==
  <<"P", "r", "i", "m", "a", "r", "y", " ", "B", "l", "u", "e">>
KeySpaceMD ==
  <<"S", "p", "a", "c", "e", " ", " ", "M", "D">>
KeyHeading ==
  <<"H", "e", "a", "d", "i", "n", "g">>
ValBlue ==
  <<"#", "0", "0", "6", "6", "c", "c">>
ValInter ==
  <<"I", "n", "t", "e", "r">>
ValButton ==
  <<"B", "u", "t", "t", "o", "n">>
ValAutoHTMLReady ==
  <<"A", "u", "t", "o", "H", "T", "M", "L", " ", "r", "e", "a", "d", "y">>
ColorTokenValue == JObject(<<Entry(KeyBase, Str(ValBlue))>>)
FigmaExportValue ==
  JObject(<<
    Entry(KeyStyles, JObject(<<
      Entry(KeyColors, JObject(<<Entry(KeyPrimaryBlue, Str(ValBlue))>>)),
      Entry(KeyGrids, JObject(<<
        Entry(KeySpaceMD, JObject(<<Entry(KeySection, Str(LitSpacing)),
                                    Entry(KeyValue, NumV(16))>>)),
        Entry(KeyBase, JObject(<<Entry(KeySection, Str(KeyGrids))>>))>>)),
      Entry(KeyText, JObject(<<
        Entry(KeyHeading, JObject(<<Entry(KeyFontFamily, Str(ValInter))>>))>>))>>)),
    Entry(KeyComponents, JArray(<<
      JObject(<<Entry(KeyName, Str(ValButton)),
                Entry(KeyDescription, Str(ValAutoHTMLReady))>>),
      JObject(<<Entry(KeyName, Str(KeyBase)), Entry(KeyType, Str(KeyText))>>)>>))>>)
FigmaValues == {Null, JObject(<<>>), FigmaExportValue}
NotJson == MalformedFile("Unexpected token # in JSON at position 0")

IndexJson == JsonFile(ColorTokenValue)
\* a filesystem: what "tokens" is, what tokens/color/index.json is (its
\* directory exists when it does), and what figma.json is
FileSystem(tokens, index, figma) ==
  [p \in FsPaths |->
     CASE p = "tokens" -> tokens
       [] p = "tokens/README.md" -> IF tokens = Dir THEN NotJson ELSE Absent
       [] p = "tokens/color" -> IF tokens = Dir /\ index # Absent THEN Dir ELSE Absent
       [] p = "tokens/color/index.json" -> IF tokens = Dir THEN index ELSE Absent
       [] p = "figma.json" -> figma]
FileSystems ==
  {FileSystem(Absent, Absent, Absent),
   FileSystem(NotJson, Absent, NotJson),
   FileSystem(Dir, Absent, JsonFile(Null)),
   FileSystem(Dir, NotJson, JsonFile(JObject(<<>>))),
   FileSystem(Dir, IndexJson, JsonFile(FigmaExportValue)),
   FileSystem(Dir, IndexJson, Absent)}

(***************************************************************************)
(* The server as a state machine: a call arrives, the dispatcher answers   *)
(* it in one step, the response is sent and the server is idle again.      *)
(***************************************************************************)
VARIABLES
  fs,        \* the filesystem the handlers read
  request,   \* the call being answered, or NoRequest
  outcome,   \* what the handler of request did: returned or threw, and its steps
  response,  \* the response to request, or NoResponse
  errored,   \* history, kept by SpecRecorded: has an earlier call been answered
             \* with an error
  previous,  \* history, kept by SpecRepeated: the response to request when it
             \* was made the first time
  scan       \* calculateDepth at work, in SpecCalculateDepth: the markup, the
             \* number of characters read, currentDepth and maxDepth

vars == <<fs, request, outcome, response, errored, previous, scan>>

NoRequest == [name |-> "(none)"]
NoOutcome == [kind |-> "none"]
NoResponse == [content |-> <<>>]
NoPrevious == [seen |-> FALSE, response |-> NoResponse]
NoScan == [code |-> <<>>, i |-> 0, currentDepth |-> 0, maxDepth |-> 0]
Idle == request = NoRequest

Init ==
  /\ fs \in FileSystems
  /\ request = NoRequest
  /\ outcome = NoOutcome
  /\ response = NoResponse
  /\ errored = FALSE
  /\ previous = NoPrevious
  /\ scan = NoScan

\* a faulty server: process_figma_export, having made its report, writes
\* a token file
CallWritingTokens(name, args) ==
  /\ Idle
  /\ request' = [name |-> name, arguments |-> args]
  /\ LET call == Dispatch(name, args, fs)
     IN  /\ outcome' = call.outcome
         /\ response' = call.response
         /\ fs' = IF /\ name = "process_figma_export"
                     /\ "processFigmaData" \in Range(call.outcome.steps)
                     /\ call.outcome.kind = "return"
                    THEN [fs EXCEPT !["tokens/color/index.json"] = IndexJson]
                    ELSE fs
  /\ UNCHANGED <<errored, previous, scan>>
\* a faulty server: a handler that threw leaves the server broken, and
\* every later call is answered with an error
CallBrokenByError(name, args) ==
  /\ Idle
  /\ request' = [name |-> name, arguments |-> args]
  /\ LET call == Dispatch(name, args, fs)
     IN  /\ outcome' = call.outcome
         /\ response' = IF errored
                          THEN TextResponse(<< <<"Error: ", "Server is not available">> >>)
                          ELSE call.response
  /\ UNCHANGED <<fs, errored, previous, scan>>
\* a call: nothing but the name, the arguments and the files goes into the
\* answer, and nothing is written
Call(name, args) ==
  /\ Idle
  /\ request' = [name |-> name, arguments |-> args]
  /\ LET call == Dispatch(name, args, fs)
     IN  outcome' = call.outcome /\ response' = call.response
  /\ UNCHANGED <<fs, errored, previous, scan>>

CallReadTokens == \E args \in ReadTokensArgs : Call("read_tokens", args)
CallValidateTokens ==
  \E args \in ValidateTokensArgs : Call("validate_component_tokens", args)
CallGenerateComponent ==
  \E args \in GenerateComponentArgs : Call("generate_component", args)
CallProcessFigmaExport ==
  \E args \in ProcessFigmaExportArgs : Call("process_figma_export", args)
CallConvertAutoHTML == \E args \in ConvertAutoHTMLArgs : Call("convert_autohtml", args)
CallUnknownTool == \E name \in UnknownToolNames : \E args \in AnyArgs : Call(name, args)
\* the response is written to the transport; nothing of the call remains
Reply ==
  /\ ~Idle
  /\ request' = NoRequest
  /\ outcome' = NoOutcome
  /\ response' = NoResponse
  /\ UNCHANGED <<fs, errored, previous, scan>>
\* Reply, with the history of the server recorded
ReplyRecorded ==
  /\ ~Idle
  /\ request' = NoRequest
  /\ outcome' = NoOutcome
  /\ response' = NoResponse
  /\ errored' = (errored \/ outcome.kind = "throw")
  /\ UNCHANGED <<fs, previous, scan>>

Next ==
  \/ CallReadTokens
  \/ CallValidateTokens
  \/ CallGenerateComponent
  \/ CallProcessFigmaExport
  \/ CallConvertAutoHTML
  \/ CallUnknownTool
  \/ Reply

Spec == Init /\ [][Next]_vars

\* the same server, observed with its history: errored is set once a call
\* has been answered with an error
NextRecorded ==
  \/ CallReadTokens
  \/ CallValidateTokens
  \/ CallGenerateComponent
  \/ CallProcessFigmaExport
  \/ CallConvertAutoHTML
  \/ CallUnknownTool
  \/ ReplyRecorded

SpecRecorded == Init /\ [][NextRecorded]_vars

\* a faulty server: the answer to a call made again carries the number of
\* the answer
CallAgainNumbered ==
  /\ ~Idle
  /\ ~previous.seen
  /\ previous' = [seen |-> TRUE, response |-> response]
  /\ LET call == Dispatch(request.name, request.arguments, fs)
     IN  /\ outcome' = call.outcome
         /\ response' =
              TextResponse(call.response.content[1].text \o << <<"Answer ", "2">> >>)
  /\ UNCHANGED <<fs, request, errored, scan>>
\* the call being answered is made a second time, with the same name and
\* the same arguments, before the first answer is sent
CallAgain ==
  /\ ~Idle
  /\ ~previous.seen
  /\ previous' = [seen |-> TRUE, response |-> response]
  /\ LET call == Dispatch(request.name, request.arguments, fs)
     IN  outcome' = call.outcome /\ response' = call.response
  /\ UNCHANGED <<fs, request, errored, scan>>
\* the answer is sent; nothing of the two calls remains
ReplyRepeated ==
  /\ ~Idle
  /\ request' = NoRequest
  /\ outcome' = NoOutcome
  /\ response' = NoResponse
  /\ previous' = NoPrevious
  /\ UNCHANGED <<fs, errored, scan>>

\* the same server, every call of which may be made twice
NextRepeated ==
  \/ CallReadTokens
  \/ CallValidateTokens
  \/ CallGenerateComponent
  \/ CallProcessFigmaExport
  \/ CallConvertAutoHTML
  \/ CallUnknownTool
  \/ CallAgain
  \/ ReplyRepeated

SpecRepeated == Init /\ [][NextRepeated]_vars

(***************************************************************************)
(* calculateDepth followed through its loop: one step per character of the *)
(* markup.  No call is being answered meanwhile.                           *)
(***************************************************************************)
InitCalculateDepth ==
  /\ fs = FileSystem(Absent, Absent, Absent)
  /\ request = NoRequest
  /\ outcome = NoOutcome
  /\ response = NoResponse
  /\ errored = FALSE
  /\ previous = NoPrevious
  /\ scan \in {[code |-> code, i |-> 0, currentDepth |-> 0, maxDepth |-> 0] :
                code \in MarkupStrings}

\* a faulty loop: maxDepth follows the counter instead of its largest value
ScanCharFollowingCounter ==
  /\ scan.i < Len(scan.code)
  /\ LET char == scan.code[scan.i + 1]
         depth == IF char = "<" THEN scan.currentDepth + 1
                  ELSE IF char = ">" THEN scan.currentDepth - 1
                  ELSE scan.currentDepth
     IN  scan' = [code |-> scan.code, i |-> scan.i + 1,
                  currentDepth |-> depth, maxDepth |-> depth]
  /\ UNCHANGED <<fs, request, outcome, response, errored, previous>>
\* the body of the loop, for the next character of the markup
ScanChar ==
  /\ scan.i < Len(scan.code)
  /\ LET char == scan.code[scan.i + 1]
     IN  scan' =
           IF char = "<"
             THEN [code |-> scan.code, i |-> scan.i + 1,
                   currentDepth |-> scan.currentDepth + 1,
                   maxDepth |-> IF scan.currentDepth + 1 > scan.maxDepth
                                  THEN scan.currentDepth + 1
                                  ELSE scan.maxDepth]
           ELSE IF char = ">"
             THEN [code |-> scan.code, i |-> scan.i + 1,
                   currentDepth |-> scan.currentDepth - 1,
                   maxDepth |-> scan.maxDepth]
           ELSE [code |-> scan.code, i |-> scan.i + 1,
                 currentDepth |-> scan.currentDepth, maxDepth |-> scan.maxDepth]
  /\ UNCHANGED <<fs, request, outcome, response, errored, previous>>

NextCalculateDepth == ScanChar

SpecCalculateDepth == InitCalculateDepth /\ [][NextCalculateDepth]_vars

(***************************************************************************)
(* Properties of the server.  They are stated over the call being          *)
(* answered: its request, what its handler did, and the response.          *)
(***************************************************************************)
ToolNames ==
  {"read_tokens", "validate_component_tokens", "generate_component",
   "process_figma_export", "convert_autohtml"}
\* the text of the response, as lines
ResponseText == response.content[1].text
\* the argument `field` of the request (undefined when the key is absent)
Arg(field) == request.arguments.f[field]

(***************************************************************************)
(* C1.  The dispatcher never lets an error escape: every call gets a       *)
(* response of exactly one text block; when the handler throws, and when   *)
(* the tool name is unknown, the text is `Error: ` followed by the message *)
(* of the error.                                                           *)
(***************************************************************************)
C1_DispatcherAlwaysAnswers ==
  ~Idle =>
    /\ Len(response.content) = 1
    /\ response.content[1].type = "text"
    /\ Len(ResponseText) >= 1
    /\ outcome.kind = "throw" =>
         /\ Head(ResponseText) = <<"Error: ">> \o Head(outcome.text)
         /\ Tail(ResponseText) = Tail(outcome.text)
    /\ outcome.kind = "return" => ResponseText = outcome.text
    /\ request.name \notin ToolNames =>
         /\ outcome.kind = "throw"
         /\ ResponseText = << <<"Error: ", "Unknown tool: ", request.name>> >>
\* a handler threw after its arguments were accepted (a token file that is
\* not JSON), and the caller got the error as a text
C1_HandlerThrewAndWasAnswered ==
  /\ request.name = "read_tokens"
  /\ outcome.kind = "throw"
  /\ outcome.steps = <<"existsSync", "readFileSync", "JSON.parse">>
  /\ Len(response.content) = 1
  /\ ResponseText[1][1] = "Error: "
  /\ ResponseText[1][2] = "Failed to read tokens: "

(***************************************************************************)
(* C2.  Every handler validates its arguments against its schema before    *)
(* it does anything else.  When the arguments violate the schema the       *)
(* handler has done no processing, and the error message is the line       *)
(* `Invalid arguments:` followed by one line `- path: message` for every   *)
(* violated field path, and by no other line.                              *)
(***************************************************************************)
\* the schemas as the tool descriptions give them: is the value acceptable
NonEmptyName(x) == x.t = "string" /\ x.v # ""
NonEmptyCode(x) == x.t = "string" /\ Len(x.v) >= 1
OneOf(x, options) == x.t = "string" /\ x.v \in options
IsA(x, type) == x.t = type
Optionally(x, ok) == x.t = "undefined" \/ ok
\* the fields of each schema
SchemaFields(name) ==
  CASE name = "read_tokens" -> {"tokenPath", "category"}
    [] name = "validate_component_tokens" -> {"componentCode", "framework"}
    [] name = "generate_component" ->
         {"componentName", "description", "framework", "tokenCategories"}
    [] name = "process_figma_export" ->
         {"figmaFilePath", "extractTokens", "generateComponents"}
    [] name = "convert_autohtml" ->
         {"autohtmlCode", "framework", "applyTokens", "removeInlineStyles",
          "componentName"}
FieldAccepted(name, field, x) ==
  CASE field = "tokenPath" -> Optionally(x, IsA(x, "string"))
    [] field = "category" -> Optionally(x, OneOf(x, TokenCategorySchema))
    [] field \in {"componentCode", "autohtmlCode"} -> NonEmptyCode(x)
    [] field = "framework" ->
         IF name = "validate_component_tokens"
           THEN OneOf(x, FrameworkSchema)
           ELSE Optionally(x, OneOf(x, FrameworkSchema))
    [] field \in {"description", "figmaFilePath"} -> NonEmptyName(x)
    [] field = "componentName" ->
         IF name = "generate_component"
           THEN NonEmptyName(x)
           ELSE Optionally(x, IsA(x, "string"))
    [] field \in {"extractTokens", "generateComponents", "applyTokens",
                  "removeInlineStyles"} -> Optionally(x, IsA(x, "boolean"))
    [] field = "tokenCategories" -> Optionally(x, IsA(x, "array"))
\* the violated paths of a call, each as the pieces of path.join(".")
ViolatedPaths(name, args) ==
  IF args.t # "object" THEN {<<>>}
  ELSE {<<field>> : field \in {g \in SchemaFields(name) :
                                 ~FieldAccepted(name, g, args.f[g])}}
       \cup (IF name = "generate_component" /\ args.f.tokenCategories.t = "array"
               THEN {<<"tokenCategories", ".", ToString(i - 1)>> :
                       i \in {j \in 1..Len(args.f.tokenCategories.e) :
                                ~OneOf(args.f.tokenCategories.e[j],
                                       TokenCategorySchema)}}
               ELSE {})
\* line is `- path: message` for this path, with some message
IsIssueLineOf(line, path) ==
  /\ Len(line) > Len(path) + 2
  /\ SubSeq(line, 1, Len(path) + 2) = <<"- ">> \o path \o <<": ">>
C2_ValidationComesFirst ==
  (~Idle /\ request.name \in ToolNames) =>
    LET paths == ViolatedPaths(request.name, request.arguments)
        text == ResponseText
    IN  IF paths # {}
          THEN /\ outcome.kind = "throw"
               /\ outcome.steps = <<>>
               /\ text[1] = <<"Error: ", "Invalid arguments:">>
               /\ Len(text) = 1 + Cardinality(paths)
               /\ \A path \in paths :
                    Cardinality({i \in 2..Len(text) :
                                   IsIssueLineOf(text[i], path)}) = 1
          ELSE /\ text[1] # <<"Error: ", "Invalid arguments:">>
               /\ outcome.steps # <<>>
\* a call that violates its schema in three places, one of them an element
\* of an array, answered with the three paths and nothing else done
C2_ThreePathsReported ==
  /\ request.name = "generate_component"
  /\ request.arguments.t = "object"
  /\ ViolatedPaths(request.name, request.arguments) =
       {<<"componentName">>, <<"tokenCategories", ".", "1">>,
        <<"tokenCategories", ".", "2">>}
  /\ outcome.steps = <<>>
  /\ Len(ResponseText) = 4
  /\ IsIssueLineOf(ResponseText[2], <<"componentName">>)
  /\ IsIssueLineOf(ResponseText[3], <<"tokenCategories", ".", "1">>)
  /\ IsIssueLineOf(ResponseText[4], <<"tokenCategories", ".", "2">>)

(***************************************************************************)
(* The validation report of validate_component_tokens, read back from the  *)
(* response.                                                               *)
(***************************************************************************)
\* the call is a validation whose arguments satisfy the schema
Validated ==
  /\ request.name = "validate_component_tokens"
  /\ ViolatedPaths(request.name, request.arguments) = {}
ValidatedCode == Arg("componentCode").v
ValidatedFramework == Arg("framework").v
\* the findings list the handler built for the call
Findings == Violations(ValidatedCode, ValidatedFramework)
\* the printed finding blocks: the positions of their header lines
\*   `${icon} **Line ${line}** [${type}]`
IsBlockHeader(line) == Len(line) = 6 /\ line[2] = " **Line " /\ line[4] = "** ["
BlockHeaders == {i \in 1..Len(ResponseText) : IsBlockHeader(ResponseText[i])}
BlocksOfType(type) == {i \in BlockHeaders : ResponseText[i][5] = type}
\* the banner line of the report
Banner == ResponseText[6]
\* the review checklist follows the banner: its heading and its four items
ChecklistShown ==
  /\ Len(ResponseText) >= 12
  /\ ResponseText[8] = <<"Review Checklist:">>
  /\ \A k \in 9..12 : ResponseText[k] \in Range(Tail(ReviewChecklist))
  /\ Cardinality({ResponseText[k] : k \in 9..12}) = 4

(***************************************************************************)
(* C3.  The validation report shows the pass banner and the review         *)
(* checklist of four items exactly when the findings list is empty;        *)
(* otherwise it shows neither.                                             *)
(***************************************************************************)
C3_PassBannerIffNoFindings ==
  Validated =>
    LET findings == Findings IN
    /\ (Banner = PassBanner) <=> (Len(findings) = 0)
    /\ ChecklistShown <=> (Len(findings) = 0)
    /\ Len(findings) > 0 =>
         \A i \in 1..Len(ResponseText) :
           /\ ResponseText[i] # PassBanner
           /\ ResponseText[i] \notin Range(ReviewChecklist)
\* a component without findings got the pass banner and the checklist
C3_CleanComponentPasses ==
  /\ Validated
  /\ ValidatedCode = LineClean
  /\ Len(Findings) = 0
  /\ Banner = PassBanner
  /\ ChecklistShown

(***************************************************************************)
(* C4.  The line `Errors: e | Warnings: w` of the validation report shows  *)
(* two non-negative counts whose sum is the number of findings in the      *)
(* list, which is the number of finding blocks the report prints.          *)
(***************************************************************************)
C4_CountsSumToFindings ==
  Validated =>
    \E e \in 0..Len(ResponseText) : \E w \in 0..Len(ResponseText) :
      /\ ResponseText[4] = <<"Errors: ", ToString(e), " | Warnings: ", ToString(w)>>
      /\ e + w = Len(Findings)
      /\ e + w = Cardinality(BlockHeaders)
\* a report with findings of both severities, three in all
C4_ErrorsAndWarningsCounted ==
  /\ Validated
  /\ ResponseText[4] = <<"Errors: ", "2", " | Warnings: ", "1">>
  /\ Cardinality(BlockHeaders) = 3

(***************************************************************************)
(* C5.  The hardcoded-color rule yields a finding for a line that holds    *)
(* `#` followed by 3 or by 6 hexadecimal digits, and none for `#`          *)
(* followed by a run of hexadecimal digits of another length.  Stated for  *)
(* the validation rule set (the AutoHTML rule set has the same pattern),   *)
(* on the lines `c:#` and a run of n hexadecimal digits that ends the line *)
(* or is followed by `;`.                                                  *)
(***************************************************************************)
C5_ColorFindingOnlyFor3Or6Digits ==
  \A n \in 0..MaxHexRun : \A tail \in {<<>>, <<";">>} :
    (Validated /\ ValidatedCode = HexLine(n, tail)) =>
      ((BlocksOfType("hardcoded-color") # {}) <=> (n \in {3, 6}))

(***************************************************************************)
(* C6.  When the framework is react and the component code holds           *)
(* `token.padding.react`, the report has exactly one finding of type       *)
(* framework-specific-token, however often the text occurs: an error       *)
(* without a line number, placed after the findings of the line scan.  For *)
(* any other framework there is no such finding.                           *)
(***************************************************************************)
C6_FrameworkSpecificTokenOnce ==
  Validated =>
    LET blocks == BlocksOfType("framework-specific-token")
        findings == Findings
    IN
    IF ValidatedFramework = "react" /\ Contains(ValidatedCode, ReactTokenLit)
      THEN /\ Cardinality(blocks) = 1
           /\ \A i \in blocks :
                /\ ResponseText[i][1] = SeverityIcon("error")
                /\ ResponseText[i][3] = "undefined"
                /\ \A j \in BlockHeaders : j <= i
           /\ findings[Len(findings)].type = "framework-specific-token"
           /\ findings[Len(findings)].line = Undef
           /\ \A k \in 1..(Len(findings) - 1) :
                /\ findings[k].type # "framework-specific-token"
                /\ findings[k].line.t = "number"
      ELSE blocks = {}
\* react code with the text on its first line and two findings of the line
\* scan on its second: one finding of the type, printed last
C6_TokenFindingComesLast ==
  /\ Validated
  /\ ValidatedFramework = "react"
  /\ ValidatedCode = JoinLines(<<LineReactToken, LineDivStyled>>)
  /\ Cardinality(BlockHeaders) = 3
  /\ \E i \in BlocksOfType("framework-specific-token") :
       \A j \in BlockHeaders : j <= i
  /\ Cardinality(BlocksOfType("framework-specific-token")) = 1
  /\ Cardinality(BlockHeaders) = 3

(***************************************************************************)
(* C7.  For the component code `<div style="color:#fff">` and the          *)
(* framework react the report shows `Errors: 2 | Warnings: 0` and the fail *)
(* banner.                                                                 *)
(***************************************************************************)
DivStyledRequest ==
  [name |-> "validate_component_tokens",
   arguments |-> Obj([componentCode |-> Str(LineDivStyled),
                      framework |-> Str("react")])]
C7_DivStyledReport ==
  (request = DivStyledRequest) =>
    /\ ResponseText[3] = <<"Framework: ", "react">>
    /\ ResponseText[4] = <<"Errors: ", "2", " | Warnings: ", "0">>
    /\ Banner = FailBanner
    /\ \A i \in 1..Len(ResponseText) : ResponseText[i] # PassBanner
    /\ Cardinality(BlockHeaders) = 2
    /\ BlocksOfType("inline-style-attr") # {}
    /\ BlocksOfType("hardcoded-color") # {}
\* the call of the example was made and answered
C7_DivStyledAnswered ==
  /\ request = DivStyledRequest
  /\ outcome.kind = "return"
  /\ Len(ResponseText) > 6

(***************************************************************************)
(* C8.  Every line of the component code that holds a length written with  *)
(* a unit (digits followed by px, rem, em, pt, vh or vw, as in `16px` and  *)
(* `2rem`) yields a hardcoded-spacing warning for that line.               *)
(***************************************************************************)
\* line holds a digit directly followed by a unit that ends there
HoldsLength(line) ==
  \E i \in 1..Len(line) : \E u \in UnitLits :
    /\ line[i] \in DigitChars
    /\ OccursAt(line, u, i + 1)
    /\ ~IsWordAt(line, i + 1 + Len(u))
C8_EveryLengthIsFlagged ==
  Validated =>
    LET lines == SplitLines(ValidatedCode) IN
    \A k \in 1..Len(lines) :
      HoldsLength(lines[k]) =>
        \E i \in BlocksOfType("hardcoded-spacing") :
          /\ ResponseText[i][1] = SeverityIcon("warning")
          /\ ResponseText[i][3] = ToString(k)

(***************************************************************************)
(* C9.  As stated: the banner is determined by the severities, so that a   *)
(* findings list with warnings only does not produce the fail banner: the  *)
(* fail banner is shown exactly when some finding is an error.             *)
(***************************************************************************)
FindingsOf(severity) ==
  LET findings == Findings
  IN  {i \in 1..Len(findings) : findings[i].severity = severity}
C9_BannerFollowsSeverity ==
  Validated => ((Banner = FailBanner) <=> (FindingsOf("error") # {}))
(***************************************************************************)
(* C9, as the handler behaves: the severities play no part in the banner.  *)
(* Any finding, error or warning, produces the fail banner; a list with    *)
(* warnings only fails like any other.                                     *)
(***************************************************************************)
C9_AnyFindingFails ==
  Validated =>
    LET errors == FindingsOf("error")
        warnings == FindingsOf("warning")
    IN  /\ errors \cup warnings = 1..Cardinality(BlockHeaders)
        /\ warnings # {} => Banner = FailBanner
        /\ errors # {} => Banner = FailBanner
        /\ Banner = FailBanner => errors \cup warnings # {}
\* a component with one warning and no error got the fail banner
C9_WarningOnlyFails ==
  /\ Validated
  /\ ValidatedCode = LineMarginSpacePx
  /\ FindingsOf("error") = {}
  /\ Cardinality(FindingsOf("warning")) = 1
  /\ ResponseText[4] = <<"Errors: ", "0", " | Warnings: ", "1">>
  /\ Banner = FailBanner

(***************************************************************************)
(* C10.  A file that does not exist is not an error.  read_tokens, asked   *)
(* for a token file that is missing, answers with the plain text           *)
(* `Token file not found: <path>`, and process_figma_export, given a       *)
(* missing export file, with `Figma export file not found: <path>`;        *)
(* neither text carries the `Error: ` prefix.                              *)
(***************************************************************************)
\* path names nothing in the filesystem
Missing(path) == path \notin DOMAIN fs \/ fs[path].kind = "absent"
\* read_tokens is asked for a specific file: the path it resolves
AsksForTokenFile ==
  /\ request.name = "read_tokens"
  /\ ViolatedPaths(request.name, request.arguments) = {}
  /\ \/ Arg("tokenPath").t = "string" /\ Arg("tokenPath").v # ""
     \/ Arg("category").t = "string"
AskedTokenPath ==
  IF Arg("tokenPath").t = "string" /\ Arg("tokenPath").v # ""
    THEN Arg("tokenPath").v
    ELSE "tokens/" \o Arg("category").v \o "/index.json"
AsksForFigmaFile ==
  /\ request.name = "process_figma_export"
  /\ ViolatedPaths(request.name, request.arguments) = {}
C10_MissingFileIsPlainText ==
  /\ (AsksForTokenFile /\ Missing(AskedTokenPath)) =>
       /\ outcome.kind = "return"
       /\ response =
            TextResponse(<< <<"Token file not found: ", AskedTokenPath>> >>)
  /\ (AsksForFigmaFile /\ Missing(Arg("figmaFilePath").v)) =>
       /\ outcome.kind = "return"
       /\ response =
            TextResponse(<< <<"Figma export file not found: ",
                              Arg("figmaFilePath").v>> >>)
\* a category whose index file is missing was asked for, and answered
C10_MissingCategoryFileAnswered ==
  /\ AsksForTokenFile
  /\ Arg("tokenPath").t = "undefined"
  /\ Arg("category").v = "spacing"
  /\ Missing("tokens/spacing/index.json")
  /\ ResponseText = << <<"Token file not found: ", "tokens/spacing/index.json">> >>

(***************************************************************************)
(* C11.  read_tokens, asked for a file that exists and whose content is    *)
(* not JSON, throws an error with the message `Failed to read tokens: `    *)
(* followed by the detail of the parse error, and the caller gets the text *)
(* `Error: Failed to read tokens: <detail>`.  process_figma_export wraps   *)
(* the parse error of its export file in the same way, with                *)
(* `Failed to process Figma export: <detail>`.                             *)
(***************************************************************************)
\* path names a file whose content JSON.parse rejects
Malformed(path) ==
  path \in DOMAIN fs /\ fs[path].kind = "file" /\ ~fs[path].valid
C11_MalformedJsonIsWrapped ==
  /\ (AsksForTokenFile /\ Malformed(AskedTokenPath)) =>
       LET detail == fs[AskedTokenPath].error IN
       /\ outcome.kind = "throw"
       /\ outcome.text = << <<"Failed to read tokens: ", detail>> >>
       /\ ResponseText = << <<"Error: ", "Failed to read tokens: ", detail>> >>
  /\ (AsksForFigmaFile /\ Malformed(Arg("figmaFilePath").v)) =>
       LET detail == fs[Arg("figmaFilePath").v].error IN
       /\ outcome.kind = "throw"
       /\ outcome.text = << <<"Failed to process Figma export: ", detail>> >>
       /\ ResponseText =
            << <<"Error: ", "Failed to process Figma export: ", detail>> >>
\* the index file of the colour tokens is not JSON, was asked for by its
\* category, and the parse error came back wrapped
C11_MalformedIndexAnswered ==
  /\ AsksForTokenFile
  /\ Arg("tokenPath").t = "undefined"
  /\ Arg("category").v = "color"
  /\ Malformed("tokens/color/index.json")
  /\ outcome.steps = <<"existsSync", "readFileSync", "JSON.parse">>
  /\ ResponseText[1][2] = "Failed to read tokens: "

(***************************************************************************)
(* The answer of generate_component, read back from the response.          *)
(***************************************************************************)
\* the call is a generation whose arguments satisfy the schema
Generated ==
  /\ request.name = "generate_component"
  /\ ViolatedPaths(request.name, request.arguments) = {}
\* the framework and the token categories of the call, defaults applied
GeneratedFramework ==
  IF Arg("framework").t = "undefined" THEN "react" ELSE Arg("framework").v
GeneratedCategories ==
  IF Arg("tokenCategories").t = "undefined"
    THEN {"color", "spacing", "typography"}
    ELSE {Arg("tokenCategories").e[i].v : i \in 1..Len(Arg("tokenCategories").e)}
\* line is a line of the response
Printed(line) == \E i \in 1..Len(ResponseText) : ResponseText[i] = line

(***************************************************************************)
(* C12.  For each of the five framework tags react, vue, svelte, angular   *)
(* and webc the component and the story are that framework's template:     *)
(* the stub that only names the framework and leaves the implementation    *)
(* open is never returned for one of the five.                             *)
(***************************************************************************)
C12_EveryFrameworkHasTemplates ==
  (Generated /\ GeneratedFramework \in FrameworkSchema) =>
    /\ ~Printed(<<"// Component for ", GeneratedFramework>>)
    /\ ~Printed(<<"// Story for ", GeneratedFramework>>)

(***************************************************************************)
(* C13.  generate_component, called with the component name Button, the    *)
(* description x, the framework vue and the token categories [color],      *)
(* returns one text block that holds a vue code fence, the props line      *)
(* `variant?: 'primary' | 'secondary' | 'accent';` and, in its Token       *)
(* Mapping section, the token color.primary.base.  For every call, the     *)
(* mapping guide has the section of a category only if the category is     *)
(* among the token categories of the call.                                 *)
(***************************************************************************)
VueButtonRequest ==
  [name |-> "generate_component",
   arguments |-> Obj([componentName |-> Str("Button"), description |-> Str("x"),
                      framework |-> Str("vue"),
                      tokenCategories |-> JArray(<<Str("color")>>)])]
\* the headings of the mapping guide and the categories they stand for
GuideHeadings ==
  [Color |-> "color", Spacing |-> "spacing", Typography |-> "typography",
   Elevation |-> "elevation", Radius |-> "radius"]
\* the position of the line `## Token Mapping`
TokenMappingAt ==
  CHOOSE i \in 1..Len(ResponseText) : ResponseText[i] = <<"## Token Mapping">>
C13_VueButtonAndGuideSections ==
  /\ (request = VueButtonRequest) =>
       /\ Len(response.content) = 1
       /\ outcome.kind = "return"
       /\ Printed(<<Fence, "vue">>)
       /\ Printed(<<"  ", "variant?: 'primary' | 'secondary' | 'accent';">>)
       /\ Printed(<<"## Token Mapping">>)
       /\ \E i \in (TokenMappingAt + 1)..Len(ResponseText) :
            /\ Len(ResponseText[i]) >= 2
            /\ ResponseText[i][1] = "- Tokens: U+0060"
            /\ ResponseText[i][2] = "color.primary.base"
  /\ Generated =>
       \A heading \in DOMAIN GuideHeadings :
         Printed(<<"### ", heading>>) <=>
           (GuideHeadings[heading] \in GeneratedCategories)
\* the call of the example was made and answered with a guide that has the
\* section of Color and no other
C13_VueButtonAnswered ==
  /\ request = VueButtonRequest
  /\ outcome.kind = "return"
  /\ Printed(<<"### ", "Color">>)
  /\ ~Printed(<<"### ", "Spacing">>)

(***************************************************************************)
(* C14.  The four extraction functions of process_figma_export (colors,    *)
(* spacing, typography, components) never raise an error: for every JSON   *)
(* value the export file can hold, a value that lacks a key on their path  *)
(* or has another shape there (the value null, for one) gives an empty     *)
(* list, and the call returns its report.                                  *)
(***************************************************************************)
\* path names a file whose content is JSON
Parsed(path) ==
  path \in DOMAIN fs /\ fs[path].kind = "file" /\ fs[path].valid
C14_ExtractionNeverFails ==
  (AsksForFigmaFile /\ Parsed(Arg("figmaFilePath").v)) =>
    LET figmaData == fs[Arg("figmaFilePath").v].value IN
    /\ ~extractColors(figmaData).threw
    /\ ~extractSpacing(figmaData).threw
    /\ ~extractTypography(figmaData).threw
    /\ ~extractComponents(figmaData).threw
    /\ outcome.kind = "return"
    /\ ResponseText[1] = <<"# Figma Export Processing Results">>

(***************************************************************************)
(* The answer of convert_autohtml, read back from the response.            *)
(***************************************************************************)
\* the call is a conversion whose arguments satisfy the schema
Converted ==
  /\ request.name = "convert_autohtml"
  /\ ViolatedPaths(request.name, request.arguments) = {}
ConvertedCode == Arg("autohtmlCode").v

(***************************************************************************)
(* C15.  As stated: the depth counter (one up on every `<`, one down on    *)
(* every `>`, the maximum recorded) yields the depth 4 on the markup       *)
(* `<a><b></b></a>`.                                                       *)
(***************************************************************************)
C15_NestedDepthIsFour ==
  (Converted /\ ConvertedCode = MarkupNested) => Printed(<<"Depth: ", "4">>)
(***************************************************************************)
(* C15, as the counter behaves: on `<a><b></b></a>` it yields the depth 1. *)
(* Every `<` is followed by its `>` before the next `<`, so the counter    *)
(* goes 1, 0, 1, 0, ... and never exceeds 1.                               *)
(***************************************************************************)
C15_NestedDepthIsOne ==
  (Converted /\ ConvertedCode = MarkupNested) =>
    /\ Printed(<<"Depth: ", "1">>)
    /\ \A d \in 2..Len(MarkupNested) : ~Printed(<<"Depth: ", ToString(d)>>)
\* the markup of the example was converted and reported with depth 1
C15_NestedMarkupConverted ==
  /\ Converted
  /\ ConvertedCode = MarkupNested
  /\ Printed(<<"Elements: ", "2">>)
  /\ Printed(<<"Depth: ", "1">>)

(***************************************************************************)
(* C16.  The class names of a markup are the captured values (the text     *)
(* between the quotes) of every `class="..."` occurrence, the keyword      *)
(* matched without regard to case, in order of appearance and with         *)
(* duplicates kept: the report lists exactly these under `Classes Found`.  *)
(***************************************************************************)
\* the text between the quotes of a matched `class="..."`
CapturedValue(match) == SubSeq(match, Len(ClassAttrLit) + 1, Len(match) - 1)
C16_ClassNamesAreCapturedValues ==
  Converted =>
    LET matches == ClassMatches(ConvertedCode, LowerCase(ConvertedCode), 1) IN
    IF Len(matches) = 0 THEN ~Printed(<<"### Classes Found">>)
    ELSE \E p \in 1..Len(ResponseText) :
           /\ ResponseText[p] = <<"### Classes Found">>
           /\ \A i \in 1..Len(matches) :
                ResponseText[p + 1 + i] =
                  <<"- U+0060">> \o CapturedValue(matches[i]) \o <<"U+0060">>
           /\ ResponseText[p + 2 + Len(matches)] = <<>>

(***************************************************************************)
(* C17.  As stated: when findings exist, the four Required Actions that    *)
(* validate_component_tokens emits are, item for item, the four that       *)
(* convert_autohtml emits.                                                 *)
(***************************************************************************)
\* the four lines that follow the heading of the Required Actions and the
\* empty line after it, given the heading
ActionsPrintedAfter(heading) ==
  LET p == CHOOSE i \in 1..Len(ResponseText) : ResponseText[i] = heading
  IN  SubSeq(ResponseText, p + 2, p + 5)
\* the converter found violations in the markup of the call
ConvertedWithViolations ==
  Converted /\ Printed(<<"- Ready for production: ", Mark(FALSE)>>)
C17_RequiredActionsIdentical ==
  /\ (Validated /\ Banner = FailBanner) =>
       ActionsPrintedAfter(<<"## Required Actions:">>) =
         SubSeq(ConvertRequiredActions, 3, 6)
  /\ ConvertedWithViolations =>
       ActionsPrintedAfter(<<"### Required Actions">>) =
         SubSeq(ValidateRequiredActions, 3, 6)
(***************************************************************************)
(* C17, as the handlers behave: each of the two emits a list of four       *)
(* Required Actions of its own, under a heading of its own, and the two    *)
(* lists differ in every item.                                             *)
(***************************************************************************)
ValidatorActions ==
  << <<"1. Replace all hardcoded values with token references">>,
     <<"2. Remove inline styles">>,
     <<"3. Map all visual properties to tokens">>,
     <<"4. Ensure component is reusable across contexts">> >>
ConverterActions ==
  << <<"1. Review all detected violations">>,
     <<"2. Map hardcoded values to tokens using U+0060read_tokensU+0060">>,
     <<"3. Verify component with U+0060validate_component_tokensU+0060">>,
     <<"4. Ensure no AutoHTML residue remains">> >>
C17_EachHasItsOwnActions ==
  /\ (Validated /\ Banner = FailBanner) =>
       /\ Printed(<<"## Required Actions:">>)
       /\ ActionsPrintedAfter(<<"## Required Actions:">>) = ValidatorActions
  /\ ConvertedWithViolations =>
       /\ Printed(<<"### Required Actions">>)
       /\ ActionsPrintedAfter(<<"### Required Actions">>) = ConverterActions
       /\ \A k \in 1..4 :
            ActionsPrintedAfter(<<"### Required Actions">>)[k] # ValidatorActions[k]
\* a markup with violations was converted and answered with the list of
\* the converter
C17_ConverterListPrinted ==
  /\ ConvertedWithViolations
  /\ ConvertedCode = MarkupStyled
  /\ Printed(<<"1. Review all detected violations">>)
  /\ ~Printed(<<"2. Remove inline styles">>)

(***************************************************************************)
(* C18.  The arguments of process_figma_export are validated against a     *)
(* schema in which outputDir is an optional string: a call whose outputDir *)
(* is present and not a string is answered with the schema error, with a   *)
(* line `- outputDir: message`, and a call without outputDir is accepted.  *)
(***************************************************************************)
C18_OutputDirIsValidated ==
  (request.name = "process_figma_export" /\ request.arguments.t = "object") =>
    /\ Arg("outputDir").t \notin {"undefined", "string"} =>
         /\ outcome.kind = "throw"
         /\ outcome.steps = <<>>
         /\ ResponseText[1] = <<"Error: ", "Invalid arguments:">>
         /\ \E i \in 2..Len(ResponseText) :
              IsIssueLineOf(ResponseText[i], <<"outputDir">>)
    /\ (Arg("outputDir").t = "undefined"
          /\ ViolatedPaths(request.name, request.arguments) = {}) =>
         ResponseText[1] # <<"Error: ", "Invalid arguments:">>

RuleIndex(rules, type) == CHOOSE k \in 1..Len(rules) : rules[k].type = type
\* findings (with a type and a line number) are in line-major order and in
\* rule-set order within a line, no line and rule twice, and every line
\* number is one of the n lines
LineMajor(findings, rules, n) ==
  /\ \A i \in 1..Len(findings) : findings[i].line \in 1..n
  /\ \A i, j \in 1..Len(findings) :
       i < j =>
         \/ findings[i].line < findings[j].line
         \/ /\ findings[i].line = findings[j].line
            /\ RuleIndex(rules, findings[i].type) < RuleIndex(rules, findings[j].type)
\* the findings of the validator that carry a line
PerLineFindings(findings) ==
  LET perLine == SelectSeq(findings, LAMBDA f : f.line.t = "number")
  IN  [k \in 1..Len(perLine) |-> [type |-> perLine[k].type, line |-> perLine[k].line.v]]
\* the header lines of the finding blocks of the converter
\*   `- ${icon} **${type}** (Line ${line})`
IsAutoBlockHeader(line) == Len(line) = 5 /\ line[3] = "** (Line "
\* the printed blocks in the order of the text: type and line label of each
PrintedBlocks ==
  LET headers == SelectSeq(ResponseText, IsBlockHeader)
  IN  [k \in 1..Len(headers) |-> <<headers[k][5], headers[k][3]>>]
PrintedAutoBlocks ==
  LET headers == SelectSeq(ResponseText, IsAutoBlockHeader)
  IN  [k \in 1..Len(headers) |-> <<headers[k][2], headers[k][4]>>]

(***************************************************************************)
(* C22.  In both scanners the findings are in line-major order and, within *)
(* a line, in the order of the rule set; a line and a rule give at most    *)
(* one finding; the line of a per-line finding is between 1 and the number *)
(* of lines of the input; and the report prints the blocks of the findings *)
(* in this very order.                                                     *)
(***************************************************************************)
C22_FindingsInOrderOfDiscovery ==
  /\ Validated =>
       LET findings == Findings IN
       /\ LineMajor(PerLineFindings(findings), forbiddenPatterns,
                    Len(SplitLines(ValidatedCode)))
       /\ PrintedBlocks =
            [k \in 1..Len(findings) |->
               <<findings[k].type, Interpolate(findings[k].line)>>]
  /\ Converted =>
       LET findings == analyzeAutoHTML(ConvertedCode) IN
       /\ LineMajor(findings, patterns, Len(SplitLines(ConvertedCode)))
       /\ PrintedAutoBlocks =
            [k \in 1..Len(findings) |->
               <<findings[k].type, ToString(findings[k].line)>>]
\* the validator scanned the two lines in which its rules match more than
\* once: one finding for the first line, two for the second
C22_RepeatedMatchesReported ==
  /\ Validated
  /\ ValidatedCode = MarkupRepeats
  /\ PrintedBlocks =
       << <<"hardcoded-spacing", "1">>, <<"hardcoded-color", "2">>,
          <<"hardcoded-spacing", "2">> >>

(***************************************************************************)
(* C23.  In the validation report the block of a finding without a line    *)
(* number (the framework-specific-token finding) shows no line label: no   *)
(* block header reads `Line x` for an x that is not a positive integer,    *)
(* that is, not the number of one of the lines of the component code.      *)
(***************************************************************************)
C23_NoLineLabelWithoutLine ==
  Validated =>
    \A i \in BlockHeaders :
      \E n \in 1..Len(SplitLines(ValidatedCode)) : ResponseText[i][3] = ToString(n)

(***************************************************************************)
(* calculateDepth, read from its loop: the markup read so far.             *)
(***************************************************************************)
\* the number of characters c among the first i characters of code
CountOf(c, code, i) == Cardinality({j \in 1..i : code[j] = c})
\* the number of "<" minus the number of ">" among the first i characters
Balance(code, i) == CountOf("<", code, i) - CountOf(">", code, i)
\* the largest balance over the prefixes of the first i characters, or 0
LargestBalance(code, i) ==
  LET balances == {0} \cup {Balance(code, j) : j \in 1..i}
  IN  CHOOSE m \in balances : \A b \in balances : b <= m
\* the loop has read the whole markup: maxDepth is what is returned
ScanDone == scan.i = Len(scan.code)

(***************************************************************************)
(* C24.  For every markup, calculateDepth returns a value that is at       *)
(* least 0 and at most the number of `<` of the markup, namely the largest *)
(* value that (number of `<` minus number of `>`) takes over the prefixes  *)
(* of the markup, or 0 if it is never positive.  The counter currentDepth  *)
(* is that difference and may be negative; maxDepth is never negative and  *)
(* no step of the loop makes it smaller.                                   *)
(***************************************************************************)
C24_DepthIsLargestBalance ==
  /\ [](/\ scan.maxDepth >= 0
        /\ scan.maxDepth <= CountOf("<", scan.code, scan.i)
        /\ scan.currentDepth = Balance(scan.code, scan.i)
        /\ scan.maxDepth = LargestBalance(scan.code, scan.i)
        /\ ScanDone => scan.maxDepth = calculateDepth(scan.code))
  /\ [][scan'.maxDepth >= scan.maxDepth]_vars
\* a markup has been read to its end with the counter below 0 and a depth
\* above 0, as on `<>>`
C24_CounterNegativeDepthPositive ==
  /\ ScanDone
  /\ scan.currentDepth < 0
  /\ scan.maxDepth > 0

(***************************************************************************)
(* The section "Token-Governed Component Code" of a conversion report.     *)
(***************************************************************************)
CodeHeading == <<"## Token-Governed Component Code">>
\* the headings of the sections that follow the code section
LaterHeadings == {<<"## Token Mapping Recommendations">>, <<"## Conversion Summary">>}
\* the lines of the code section of text, from its heading up to the next
\* section; no lines when the section is missing
CodeSection(text) ==
  LET at == {i \in 1..Len(text) : text[i] = CodeHeading}
  IN  IF at = {} THEN <<>>
      ELSE LET first == CHOOSE i \in at : \A j \in at : i <= j
               ends == {j \in (first + 1)..Len(text) : text[j] \in LaterHeadings}
               end == CHOOSE j \in ends : \A k \in ends : j <= k
           IN  SubSeq(text, first, end - 1)
\* the flags of the call, defaults applied
ConvertedFlag(field) == IF Arg(field).t = "undefined" THEN TRUE ELSE Arg(field).v
\* the call that agrees with the request on framework and componentName and
\* asks for the conversion of the plain markup with applyTokens alone
PlainRequestArguments ==
  Obj([autohtmlCode |-> Str(MarkupPlain), framework |-> Arg("framework"),
       applyTokens |-> Bool(TRUE), removeInlineStyles |-> Bool(FALSE),
       componentName |-> Arg("componentName")])

====
